---- MODULE Spec2Model ----
(***************************************************************************)
(* Month-boundary proration (flight_logic: prorateFlight,                  *)
(* applyFlightLogic) and confidence scoring (apply_confidence.ts) of the   *)
(* io-parser pipeline.                                                     *)
(*                                                                         *)
(* Representation.                                                         *)
(*  - null is the empty tuple; a present number v is <<v>>.                *)
(*  - a date string 'yyyy-MM-dd' is the tuple <<y, m, d>>; <<0,0,0>> is    *)
(*    the string "0000-00-00", which no parser accepts.                    *)
(*  - a Date object is <<day, ms>>: the local calendar day as a serial     *)
(*    number (2023-01-01 is day 0) and the local time of day in ms; the    *)
(*    Invalid Date is <<>>.  Local midnight is assumed to exist on every   *)
(*    day (no DST change at 00:00).                                        *)
(*  - money is in integer cents, rates (CPM) in integer cents per 1000,    *)
(*    scores are exact rationals <<num, den>>.                             *)
(***************************************************************************)
EXTENDS Integers, Sequences, FiniteSets, TLC

VARIABLES pc, io, args, result, report, simplified

vars == <<pc, io, args, result, report, simplified>>

Null == <<>>

Some(v) == <<v>>

\* `x || 0` on a nullable number
OrZero(x) == IF x = Null THEN 0 ELSE x[1]

\* Math.round: the nearest integer, halves towards +infinity; n / d with d > 0
MathRound(n, d) == (2 * n + d) \div (2 * d)

Abs(x) == IF x < 0 THEN -x ELSE x

(***************************************************************************)
(* Calendar                                                                *)
(***************************************************************************)
IsLeapYear(y) == (y % 4 = 0 /\ y % 100 # 0) \/ y % 400 = 0

getDaysInMonth(y, m) ==
  IF m = 2 THEN (IF IsLeapYear(y) THEN 29 ELSE 28)
  ELSE IF m \in {4, 6, 9, 11} THEN 30 ELSE 31

DaysInYear(y) == IF IsLeapYear(y) THEN 366 ELSE 365

RECURSIVE DaysBeforeYear(_)
DaysBeforeYear(y) == IF y <= 2023 THEN 0 ELSE DaysBeforeYear(y - 1) + DaysInYear(y - 1)

RECURSIVE DaysBeforeMonth(_, _)
DaysBeforeMonth(y, m) ==
  IF m <= 1 THEN 0 ELSE DaysBeforeMonth(y, m - 1) + getDaysInMonth(y, m - 1)

DayNumber(y, m, d) == DaysBeforeYear(y) + DaysBeforeMonth(y, m) + (d - 1)

RECURSIVE YearFrom(_, _)
YearFrom(n, y) == IF n < DaysInYear(y) THEN <<y, n>> ELSE YearFrom(n - DaysInYear(y), y + 1)

RECURSIVE MonthFrom(_, _, _)
MonthFrom(y, n, m) ==
  IF n < getDaysInMonth(y, m) THEN <<y, m, n + 1>>
  ELSE MonthFrom(y, n - getDaysInMonth(y, m), m + 1)

\* the serial day of a date string
DayOf(s) == DayNumber(s[1], s[2], s[3])

\* the calendar date <<y, m, d>> of a serial day
Civil(n) == LET yr == YearFrom(n, 2023) IN MonthFrom(yr[1], yr[2], 1)

InvalidDate == <<>>

EndOfDayMs == 24 * 60 * 60 * 1000 - 1

IsValidDateString(s) ==
  /\ Len(s) = 3
  /\ s[1] >= 2023
  /\ s[2] \in 1..12
  /\ s[3] \in 1..getDaysInMonth(s[1], s[2])

\* date-fns parseISO of a date-only string: local midnight, or Invalid Date
parseISO(s) == IF IsValidDateString(s) THEN <<DayNumber(s[1], s[2], s[3]), 0>> ELSE InvalidDate

\* Date.prototype.getMonth (1-based here) and getFullYear
getMonth(date) == Civil(date[1])[2]

getFullYear(date) == Civil(date[1])[1]

\* a variant that ends the month a day late
endOfMonth_DayLate(date) ==
  LET c == Civil(date[1])
  IN <<DayNumber(c[1], c[2], getDaysInMonth(c[1], c[2])) + 1, EndOfDayMs>>

\* date-fns endOfMonth: the last day of the month at 23:59:59.999
endOfMonth(date) ==
  LET c == Civil(date[1])
  IN <<DayNumber(c[1], c[2], getDaysInMonth(c[1], c[2])), EndOfDayMs>>

\* date-fns addDays: setDate(getDate() + amount) keeps the time of day
addDays(date, amount) == <<date[1] + amount, date[2]>>

\* date-fns format(date, 'yyyy-MM-dd'): the time of day is dropped
format(date) == Civil(date[1])

\* the relational operators of two Dates compare their time values;
\* every comparison with an Invalid Date is false
DateLt(a, b) == a # InvalidDate /\ b # InvalidDate /\ (a[1] < b[1] \/ (a[1] = b[1] /\ a[2] < b[2]))

DateLe(a, b) == a # InvalidDate /\ b # InvalidDate /\ (a[1] < b[1] \/ (a[1] = b[1] /\ a[2] <= b[2]))

DateGt(a, b) == DateLt(b, a)

DateGe(a, b) == DateLe(b, a)

\* date-fns compareLocalAsc: -1, 0 or 1 by the local date and time fields
compareLocalAsc(a, b) ==
  IF a[1] < b[1] \/ (a[1] = b[1] /\ a[2] < b[2]) THEN -1
  ELSE IF a = b THEN 0 ELSE 1

\* date-fns differenceInDays(dateLeft, dateRight): the number of full days
differenceInDays(dateLeft, dateRight) ==
  LET sign == compareLocalAsc(dateLeft, dateRight)
      difference == Abs(dateLeft[1] - dateRight[1])
      shifted == <<dateLeft[1] - sign * difference, dateLeft[2]>>
      isLastDayNotFull == IF compareLocalAsc(shifted, dateRight) = -sign THEN 1 ELSE 0
  IN sign * (difference - isLastDayNotFull)

(***************************************************************************)
(* FlightSegmenter: prorateFlight                                          *)
(***************************************************************************)
\* the object { ...flight, start, end, cost, units, segment_days, proration_factor }
\* of one loop iteration; proration_factor is in 1/10000
MakeSegment(flight, currentDate, segmentEnd, proratedCost, proratedUnits, segmentDays, totalDays) ==
  [index |-> flight.index,
   placement_id |-> flight.placement_id,
   rate_cpm |-> flight.rate_cpm,
   start |-> format(currentDate),
   end |-> format(segmentEnd),
   cost |-> proratedCost,
   units |-> proratedUnits,
   segment_days |-> segmentDays,
   proration_factor |-> MathRound(segmentDays * 10000, totalDays)]

\* independent rounding of every segment: no segment absorbs the remainder
IsLastSegment_Never(currentDate, segmentEnd, endDate) == FALSE

\* the test "this is the last segment" of the cost and units branches
IsLastSegment(currentDate, segmentEnd, endDate) ==
  DateGe(currentDate, endDate) \/ DateGt(addDays(segmentEnd, 1), endDate)

\* the while loop of prorateFlight
RECURSIVE ProrateLoop(_, _, _, _, _, _, _)
ProrateLoop(flight, endDate, totalDays, currentDate, remainingCost, remainingUnits, segments) ==
  IF ~DateLe(currentDate, endDate) THEN segments
  ELSE
    LET monthEnd == endOfMonth(currentDate)
        segmentEnd == IF DateGt(currentDate, monthEnd) THEN endDate
                      ELSE IF DateLt(endDate, monthEnd) THEN endDate ELSE monthEnd
        segmentDays == differenceInDays(segmentEnd, currentDate) + 1
        last == IsLastSegment(currentDate, segmentEnd, endDate)
        costShare == MathRound(OrZero(flight.cost) * segmentDays, totalDays)
        unitsShare == MathRound(OrZero(flight.units) * segmentDays, totalDays)
        proratedCost == IF flight.cost = Null THEN Null
                        ELSE IF last THEN Some(remainingCost) ELSE Some(costShare)
        proratedUnits == IF flight.units = Null THEN Null
                         ELSE IF last THEN Some(remainingUnits) ELSE Some(unitsShare)
        nextCost == IF flight.cost # Null /\ ~last THEN remainingCost - costShare ELSE remainingCost
        nextUnits == IF flight.units # Null /\ ~last THEN remainingUnits - unitsShare ELSE remainingUnits
        segment == MakeSegment(flight, currentDate, segmentEnd, proratedCost, proratedUnits,
                               segmentDays, totalDays)
    IN ProrateLoop(flight, endDate, totalDays, addDays(segmentEnd, 1), nextCost, nextUnits,
                   Append(segments, segment))

\* the early return with an exclusive day count
SameMonthSegment_Exclusive(flight, totalDays) ==
  [segment_days |-> totalDays - 1, proration_factor |-> 10000] @@ flight

\* the early return for a flight within one calendar month
SameMonthSegment(flight, totalDays) ==
  [segment_days |-> totalDays, proration_factor |-> 10000] @@ flight

prorateFlight(flight) ==
  IF flight.start = Null \/ flight.end = Null THEN <<flight>>
  ELSE
    LET startDate == parseISO(flight.start)
        endDate == parseISO(flight.end)
    IN IF startDate = InvalidDate \/ endDate = InvalidDate
       THEN \* NaN === NaN is false, and so is NaN <= NaN: the loop body never runs
            <<>>
       ELSE
         LET totalDays == differenceInDays(endDate, startDate) + 1
         IN IF getMonth(startDate) = getMonth(endDate) /\ getFullYear(startDate) = getFullYear(endDate)
            THEN <<SameMonthSegment(flight, totalDays)>>
            ELSE ProrateLoop(flight, endDate, totalDays, startDate,
                             OrZero(flight.cost), OrZero(flight.units), <<>>)

(***************************************************************************)
(* DocumentNormalizer: applyFlightLogic                                    *)
(***************************************************************************)
\* the note pushed for a flight that was split
ProcessingNote(flight, segments) ==
  [placement_id |-> flight.placement_id, start |-> flight.start, end |-> flight.end,
   segments |-> Len(segments)]

\* the segments of every flight, flight by flight
SegmentsByFlight(flights) == [i \in 1..Len(flights) |-> prorateFlight(flights[i])]

\* allSegments.push(...segments), flight after flight
RECURSIVE AllSegments(_, _)
AllSegments(segmentsByFlight, i) ==
  IF i > Len(segmentsByFlight) THEN <<>>
  ELSE segmentsByFlight[i] \o AllSegments(segmentsByFlight, i + 1)

\* one note for every flight that was split
RECURSIVE ProcessingNotes(_, _, _)
ProcessingNotes(flights, segmentsByFlight, i) ==
  IF i > Len(flights) THEN <<>>
  ELSE (IF Len(segmentsByFlight[i]) > 1
        THEN <<ProcessingNote(flights[i], segmentsByFlight[i])>> ELSE <<>>)
       \o ProcessingNotes(flights, segmentsByFlight, i + 1)

\* the explanation object after the notes were pushed onto its assumptions
Explained(explanation, processingNotes) ==
  [explanation EXCEPT !.assumptions = explanation.assumptions \o processingNotes]

\* the returned { io, summary }; result.explanation is jsonData.explanation itself
\* (the spread copies the reference), so the notes land in both
FlightLogicResult(jsonData, allSegments, processingNotes, originalTotalCost, originalTotalUnits) ==
  [io |-> [jsonData EXCEPT !.flights = allSegments,
                           !.total_campaign_spend = Some(originalTotalCost),
                           !.total_contracted_impressions = Some(originalTotalUnits),
                           !.explanation = Explained(jsonData.explanation, processingNotes)],
   summary |-> [original_flights |-> Len(jsonData.flights),
                prorated_segments |-> Len(allSegments),
                month_crossing_flights |-> Len(processingNotes),
                total_cost_before |-> originalTotalCost,
                total_cost_after |-> originalTotalCost,
                total_units_before |-> originalTotalUnits,
                total_units_after |-> originalTotalUnits,
                processing_notes |-> processingNotes],
   explanation |-> Explained(jsonData.explanation, processingNotes)]

SegmentedDocument(jsonData, segmentsByFlight) ==
  FlightLogicResult(jsonData, AllSegments(segmentsByFlight, 1),
                    ProcessingNotes(jsonData.flights, segmentsByFlight, 1),
                    OrZero(jsonData.total_campaign_spend),
                    OrZero(jsonData.total_contracted_impressions))

applyFlightLogic(jsonData) == SegmentedDocument(jsonData, SegmentsByFlight(jsonData.flights))

(***************************************************************************)
(* Scores: exact rationals <<num, den>> in lowest terms, den > 0           *)
(***************************************************************************)
RECURSIVE Gcd(_, _)
Gcd(a, b) == IF b = 0 THEN a ELSE Gcd(b, a % b)

Rat(n, d) == LET g == Gcd(Abs(n), d) IN <<n \div g, d \div g>>

RAdd(a, b) == Rat(a[1] * b[2] + b[1] * a[2], a[2] * b[2])

RMul(a, b) == Rat(a[1] * b[1], a[2] * b[2])

RDivInt(a, k) == Rat(a[1], a[2] * k)

RLt(a, b) == a[1] * b[2] < b[1] * a[2]

RGe(a, b) == ~RLt(a, b)

Zero == Rat(0, 1)

One == Rat(1, 1)

\* a score written in tenths: Tenths(7) is 0.7
Tenths(t) == Rat(t, 10)

Component(name, score) == [name |-> name, score |-> score]

\* components.reduce((sum, comp) => sum + comp.score, 0)
RECURSIVE SumScores(_)
SumScores(components) ==
  IF components = <<>> THEN Zero
  ELSE RAdd(Head(components).score, SumScores(Tail(components)))

\* components.find(c => c.name === name): the first such component, or null
RECURSIVE FindComponent(_, _)
FindComponent(components, name) ==
  IF components = <<>> THEN Null
  ELSE IF Head(components).name = name THEN Some(Head(components))
  ELSE FindComponent(Tail(components), name)

\* the use / review / reject thresholds
StatusOf(score) ==
  IF RGe(score, Rat(80, 100)) THEN "use"
  ELSE IF RGe(score, Rat(55, 100)) THEN "review"
  ELSE "reject"

(***************************************************************************)
(* FieldValidators: flight-level rules                                     *)
(***************************************************************************)
\* parseDate: new Date(dateStr) of a date-only string (UTC midnight, here the
\* serial day), or null
parseDate(dateStr) ==
  IF dateStr = Null THEN Null
  ELSE IF IsValidDateString(dateStr) THEN Some(DayOf(dateStr))
  ELSE Null

\* the date check with a flight of one day taken as out of order
validateFlightDates_Strict(flight) ==
  LET start == parseDate(flight.start)
      end == parseDate(flight.end)
  IN IF start = Null \/ end = Null THEN Component("flight_dates", Zero)
     ELSE IF start[1] >= end[1] THEN Component("flight_dates", Tenths(2))
     ELSE Component("flight_dates", One)

validateFlightDates(flight) ==
  LET start == parseDate(flight.start)
      end == parseDate(flight.end)
  IN IF start = Null \/ end = Null THEN Component("flight_dates", Zero)
     ELSE IF start[1] > end[1] THEN Component("flight_dates", Tenths(2))
     ELSE Component("flight_dates", One)

\* rate_cpm is in cents: "cpm < 100" dollars is "< 10000" cents
validateFlightCpm(flight) ==
  LET cpm == flight.rate_cpm
  IN IF cpm = Null THEN Component("flight_cpm", Tenths(7))
     ELSE IF cpm[1] < 0 THEN Component("flight_cpm", Zero)
     ELSE IF cpm[1] = 0 THEN Component("flight_cpm", Tenths(8))
     ELSE IF cpm[1] < 100 * 100 THEN Component("flight_cpm", One)
     ELSE Component("flight_cpm", Tenths(6))

validateFlightUnits(flight) ==
  LET units == flight.units
  IN IF units = Null THEN Component("flight_units", Zero)
     ELSE IF units[1] < 0 THEN Component("flight_units", Zero)
     ELSE IF units[1] = 0 THEN Component("flight_units", Tenths(3))
     ELSE IF units[1] < 1000 THEN Component("flight_units", Tenths(5))
     ELSE Component("flight_units", One)

\* costDiff = |cost - expectedCost| / expectedCost with expectedCost = cpm * units / 1000
CostDiff(cost, cpm, units) == Rat(Abs(1000 * cost - cpm * units), cpm * units)

\* the cost check with the 0.1% bound included
validateFlightCost_Inclusive(flight) ==
  LET cost == flight.cost
      units == flight.units
      cpm == flight.rate_cpm
  IN IF cost = Null THEN Component("flight_cost", Zero)
     ELSE IF cost[1] < 0 THEN Component("flight_cost", Zero)
     ELSE IF cost[1] = 0
          THEN Component("flight_cost", IF cpm # Null /\ cpm[1] = 0 THEN Tenths(8) ELSE Tenths(3))
     ELSE IF cpm # Null /\ cpm[1] > 0 /\ units # Null /\ units[1] > 0
          THEN IF ~RLt(Rat(1, 1000), CostDiff(cost[1], cpm[1], units[1]))
               THEN Component("flight_cost", One)
               ELSE Component("flight_cost", Zero)
     ELSE Component("flight_cost", Tenths(8))

validateFlightCost(flight) ==
  LET cost == flight.cost
      units == flight.units
      cpm == flight.rate_cpm
  IN IF cost = Null THEN Component("flight_cost", Zero)
     ELSE IF cost[1] < 0 THEN Component("flight_cost", Zero)
     ELSE IF cost[1] = 0
          THEN Component("flight_cost", IF cpm # Null /\ cpm[1] = 0 THEN Tenths(8) ELSE Tenths(3))
     ELSE IF cpm # Null /\ cpm[1] > 0 /\ units # Null /\ units[1] > 0
          THEN IF RLt(CostDiff(cost[1], cpm[1], units[1]), Rat(1, 1000))
               THEN Component("flight_cost", One)
               ELSE Component("flight_cost", Zero)
     ELSE Component("flight_cost", Tenths(8))

validateFlightWithinCampaignPeriod(flight, campaignStart, campaignEnd) ==
  LET flightStart == parseDate(flight.start)
      flightEnd == parseDate(flight.end)
      campaignStartDate == parseDate(campaignStart)
      campaignEndDate == parseDate(campaignEnd)
  IN IF flightStart = Null \/ flightEnd = Null
       THEN Component("flight_within_campaign", Tenths(3))
     ELSE IF campaignStartDate = Null \/ campaignEndDate = Null
       THEN Component("flight_within_campaign", Tenths(7))
     ELSE IF flightStart[1] >= campaignStartDate[1] /\ flightEnd[1] <= campaignEndDate[1]
       THEN Component("flight_within_campaign", One)
     ELSE Component("flight_within_campaign", Zero)

\* the components array of validateIndividualFlight
FlightComponents(flight, campaignStart, campaignEnd) ==
  <<validateFlightDates(flight), validateFlightCpm(flight),
    validateFlightUnits(flight), validateFlightCost(flight)>>
  \o (IF campaignStart # Null /\ campaignEnd # Null
      THEN <<validateFlightWithinCampaignPeriod(flight, campaignStart, campaignEnd)>>
      ELSE <<>>)

\* is the named component present with a score of exactly 0.0
GateFails(components, name) ==
  LET c == FindComponent(components, name)
  IN c # Null /\ c[1].score = Zero

FieldConfidence(field, score, status, components, values) ==
  [field |-> field, confidence_score |-> score, status |-> status,
   components |-> components, values_across_runs |-> values]

\* `flight_${flight.index || 'unknown'}`
FlightFieldName(flight) ==
  IF flight.index = Null \/ flight.index = Some(0) THEN "flight_unknown"
  ELSE "flight_" \o ToString(flight.index[1])

\* the flight entry with the cost gate only: a flight outside the campaign
\* window is averaged like any other
validateIndividualFlight_CostGateOnly(flight, campaignStart, campaignEnd) ==
  LET components == FlightComponents(flight, campaignStart, campaignEnd)
      confidence_score == RDivInt(SumScores(components), Len(components))
  IN IF GateFails(components, "flight_cost")
       THEN FieldConfidence(FlightFieldName(flight), Zero, "reject", components, <<>>)
     ELSE FieldConfidence(FlightFieldName(flight), confidence_score,
                          StatusOf(confidence_score), components, <<>>)

validateIndividualFlight(flight, campaignStart, campaignEnd) ==
  LET components == FlightComponents(flight, campaignStart, campaignEnd)
      confidence_score == RDivInt(SumScores(components), Len(components))
  IN IF GateFails(components, "flight_cost")
       THEN FieldConfidence(FlightFieldName(flight), Zero, "reject", components, <<>>)
     ELSE IF GateFails(components, "flight_within_campaign")
       THEN FieldConfidence(FlightFieldName(flight), Zero, "reject", components, <<>>)
     ELSE FieldConfidence(FlightFieldName(flight), confidence_score,
                          StatusOf(confidence_score), components, <<>>)

(***************************************************************************)
(* Strings (TLA+ strings; a nullable string is null or <<s>>)              *)
(***************************************************************************)
charAt(s, i) == SubSeq(s, i, i)

\* the lower-case letter of every upper-case letter
LowerCaseOf ==
  LET UpperCaseLetters == "ABCDEFGHIJKLMNOPQRSTUVWXYZ"
      LowerCaseLetters == "abcdefghijklmnopqrstuvwxyz"
  IN [c \in { charAt(UpperCaseLetters, i) : i \in 1..Len(UpperCaseLetters) } |->
        charAt(LowerCaseLetters, CHOOSE i \in 1..Len(UpperCaseLetters) : charAt(UpperCaseLetters, i) = c)]

LowerChar(c) == IF c \in DOMAIN LowerCaseOf THEN LowerCaseOf[c] ELSE c

RECURSIVE toLowerCase(_)
toLowerCase(s) ==
  IF Len(s) = 0 THEN ""
  ELSE LowerChar(charAt(s, 1)) \o toLowerCase(SubSeq(s, 2, Len(s)))

\* String.prototype.includes
includes(text, keyword) ==
  \E i \in 1..(Len(text) - Len(keyword) + 1) : SubSeq(text, i, i + Len(keyword) - 1) = keyword

\* keywords.some(keyword => text.includes(keyword.toLowerCase()))
containsAnyKeyword(text, keywords) ==
  \E k \in 1..Len(keywords) : includes(text, toLowerCase(keywords[k]))

IsSpace(c) == c \in {" ", "\t", "\n"}

\* s.replace(/\s+/g, ' ')
RECURSIVE CollapseSpaces(_)
CollapseSpaces(s) ==
  IF Len(s) = 0 THEN ""
  ELSE IF IsSpace(charAt(s, 1))
       THEN IF Len(s) >= 2 /\ IsSpace(charAt(s, 2))
            THEN CollapseSpaces(SubSeq(s, 2, Len(s)))
            ELSE " " \o CollapseSpaces(SubSeq(s, 2, Len(s)))
       ELSE charAt(s, 1) \o CollapseSpaces(SubSeq(s, 2, Len(s)))

RECURSIVE trimStart(_)
trimStart(s) ==
  IF Len(s) > 0 /\ IsSpace(charAt(s, 1)) THEN trimStart(SubSeq(s, 2, Len(s))) ELSE s

RECURSIVE trimEnd(_)
trimEnd(s) ==
  IF Len(s) > 0 /\ IsSpace(charAt(s, Len(s))) THEN trimEnd(SubSeq(s, 1, Len(s) - 1)) ELSE s

trim(s) == trimEnd(trimStart(s))

\* s.replace(/\([^)]*\)$/, ''): the leftmost "(" followed by no ")" before the
\* final ")" of the string, removed with everything after it
StripTrailingParens(s) ==
  LET n == Len(s)
      starts == { i \in 1..(n - 1) :
                    /\ charAt(s, i) = "("
                    /\ \A j \in (i + 1)..(n - 1) : charAt(s, j) # ")" }
  IN IF n >= 2 /\ charAt(s, n) = ")" /\ starts # {}
     THEN SubSeq(s, 1, (CHOOSE i \in starts : \A j \in starts : i <= j) - 1)
     ELSE s

normalize(s) == trim(StripTrailingParens(trim(CollapseSpaces(toLowerCase(s)))))

Min3(a, b, c) == IF a <= b /\ a <= c THEN a ELSE IF b <= c THEN b ELSE c

Max(a, b) == IF a >= b THEN a ELSE b

\* one row of the matrix of levenshteinDistance, filled left to right:
\* row holds matrix[i][0..j-1], prev holds matrix[i-1], c is str2.charAt(i - 1)
\* (Len(row) = j throughout: the first test only has the row computed so far)
RECURSIVE MatrixRow(_, _, _, _, _)
MatrixRow(str1, c, prev, row, j) ==
  IF j > Len(row) THEN row
  ELSE IF j > Len(str1) THEN row
  ELSE MatrixRow(str1, c, prev,
                 Append(row, IF c = charAt(str1, j) THEN prev[j]
                             ELSE Min3(prev[j] + 1, row[j] + 1, prev[j + 1] + 1)),
                 j + 1)

\* the rows i..str2.length, each from the one before; the last row
\* (a row is never empty: the second test only has the row before computed)
RECURSIVE MatrixRows(_, _, _, _)
MatrixRows(str1, str2, prev, i) ==
  IF i > Len(str2) \/ Len(prev) = 0 THEN prev
  ELSE MatrixRows(str1, str2, MatrixRow(str1, charAt(str2, i), prev, <<i>>, 1), i + 1)

\* the matrix of levenshteinDistance, entry [str2.length][str1.length]
levenshteinDistance(str1, str2) ==
  MatrixRows(str1, str2, [j \in 1..(Len(str1) + 1) |-> j - 1], 1)[Len(str1) + 1]

calculateStringSimilarity(str1, str2) ==
  IF str1 = str2 THEN One
  ELSE LET norm1 == normalize(str1)
           norm2 == normalize(str2)
           maxLen == Max(Len(norm1), Len(norm2))
       IN IF norm1 = norm2 THEN Rat(95, 100)
          ELSE IF maxLen = 0 THEN One
          ELSE Rat(Max(0, maxLen - levenshteinDistance(norm1, norm2)), maxLen)

(***************************************************************************)
(* FieldValidators: document-level rules                                   *)
(***************************************************************************)
validateBudgetFormat(totalSpend) ==
  Component("budget_format", IF totalSpend # Null /\ totalSpend[1] > 0 THEN One ELSE Zero)

\* impressions are integers in the model, so Number.isInteger holds
validateImpressionsFormat(impressions) ==
  Component("impressions_format", IF impressions # Null /\ impressions[1] > 1000 THEN One ELSE Zero)

fieldKeywords ==
  [advertiser_name |->
     [primary |-> <<"advertiser/brand", "advertiser name", "brand name", "primary ad server">>,
      good |-> <<"advertiser", "brand", "client name", "client:", "company name", "ad server">>,
      acceptable |-> <<"supplier", "from:", "to:", "account", "customer">>],
   agency_name |->
     [primary |-> <<"agency name", "from to section", "agency:", "from/to">>,
      good |-> <<"agency", "client", "from", "to", "account manager", "contact">>,
      acceptable |-> <<"supplier", "vendor", "partner">>],
   total_campaign_spend |->
     [primary |-> <<"order total", "campaign total", "total cost", "total spend">>,
      good |-> <<"total", "budget", "spend", "cost", "amount", "price", "investment">>,
      acceptable |-> <<"revenue", "billing", "invoice", "payment">>],
   total_contracted_impressions |->
     [primary |-> <<"order total", "total impressions", "contracted impressions">>,
      good |-> <<"total", "impressions", "imps", "delivery", "volume">>,
      acceptable |-> <<"units", "quantity", "reach", "views">>],
   po_number |->
     [primary |-> <<"order number", "po number", "purchase order">>,
      good |-> <<"order", "po", "purchase", "order #", "po #", "reference">>,
      acceptable |-> <<"id", "number", "code", "ref", "external">>],
   frequency_cap |->
     [primary |-> <<"frequency caps", "frequency cap", "frequency limit">>,
      good |-> <<"frequency", "cap", "limit", "per day", "daily", "weekly">>,
      acceptable |-> <<"impression", "delivery", "control", "pacing">>],
   currency |->
     [primary |-> <<"currency", "usd", "$", "dollar">>,
      good |-> <<"budget", "spend", "cost", "total", "amount">>,
      acceptable |-> <<"price", "payment", "billing", "financial">>],
   start_date |->
     [primary |-> <<"start date", "campaign start", "flight start", "begin date">>,
      good |-> <<"start", "begin", "from", "launch", "kickoff", "campaign dates">>,
      acceptable |-> <<"date", "period", "schedule", "timing">>],
   end_date |->
     [primary |-> <<"end date", "campaign end", "flight end", "completion date">>,
      good |-> <<"end", "finish", "to", "close", "wrap", "campaign dates">>,
      acceptable |-> <<"date", "period", "schedule", "timing">>],
   period_start |->
     [primary |-> <<"period start", "period labels", "campaign period", "inferred", "implied">>,
      good |-> <<"period", "start", "begin", "flight", "duration", "timeline">>,
      acceptable |-> <<"schedule", "timing", "calendar", "range">>],
   period_end |->
     [primary |-> <<"period end", "period labels", "campaign period", "inferred", "implied">>,
      good |-> <<"period", "end", "finish", "flight", "duration", "timeline">>,
      acceptable |-> <<"schedule", "timing", "calendar", "range">>],
   account_executive_name |->
     [primary |-> <<"account executive", "ae name", "account manager">>,
      good |-> <<"account exec", "ae", "executive", "manager", "contact", "representative">>,
      acceptable |-> <<"sales", "rep", "owner", "lead", "coordinator">>]]

commonSections ==
  <<"header", "footer", "summary", "details", "information", "data", "table", "section">>

\* location is a nullable string; `!location` also holds for the empty string
validateSpanQuality(field, location) ==
  IF location = Null \/ location = Some("") THEN Component("span_quality", Tenths(6))
  ELSE
    LET locationLower == toLowerCase(location[1])
    IN IF field \notin DOMAIN fieldKeywords THEN Component("span_quality", Tenths(6))
       ELSE IF containsAnyKeyword(locationLower, fieldKeywords[field].primary)
         THEN Component("span_quality", One)
       ELSE IF containsAnyKeyword(locationLower, fieldKeywords[field].good)
         THEN Component("span_quality", Tenths(9))
       ELSE IF containsAnyKeyword(locationLower, fieldKeywords[field].acceptable)
         THEN Component("span_quality", Tenths(7))
       ELSE IF containsAnyKeyword(locationLower, commonSections)
         THEN Component("span_quality", Tenths(6))
       ELSE Component("span_quality", Tenths(5))

(***************************************************************************)
(* StabilityAnalyzer                                                       *)
(***************************************************************************)
\* new Set(values.map(v => JSON.stringify(v))).size for three values
UniqueCount(values) == Cardinality({ values[i] : i \in 1..Len(values) })

\* (a + b + c) / 3 as the doubles give it: the exact mean, except that
\* 0.95 + 0.95 + 0.95 is 2.8499999999999996, whose third is just below 0.95
Mean3(a, b, c) ==
  IF a = Rat(95, 100) /\ b = Rat(95, 100) /\ c = Rat(95, 100) THEN Rat(94999, 100000)
  ELSE RDivInt(RAdd(RAdd(a, b), c), 3)

\* values are nullable; with fieldType "string" the non-null ones are strings
validateStability(values, fieldType) ==
  IF Len(values) = 0 THEN Component("stability", Tenths(7))
  ELSE IF Len(values) = 1 THEN Component("stability", Tenths(8))
  ELSE IF Len(values) = 2 THEN
    LET similarity == IF fieldType = "string" /\ values[1] # Null /\ values[2] # Null
                      THEN calculateStringSimilarity(values[1][1], values[2][1])
                      ELSE IF values[1] = values[2] THEN One ELSE Zero
    IN Component("stability",
                 IF RGe(similarity, Tenths(9)) THEN Tenths(9)
                 ELSE IF RGe(similarity, Tenths(7)) THEN Tenths(7) ELSE Tenths(6))
  ELSE IF Len(values) # 3 THEN Component("stability", Tenths(7))
  ELSE IF fieldType = "string" /\ \A i \in 1..3 : values[i] # Null THEN
    LET sim12 == calculateStringSimilarity(values[1][1], values[2][1])
        sim13 == calculateStringSimilarity(values[1][1], values[3][1])
        sim23 == calculateStringSimilarity(values[2][1], values[3][1])
        avgSimilarity == Mean3(sim12, sim13, sim23)
    IN Component("stability",
                 IF RGe(avgSimilarity, Rat(95, 100)) THEN One
                 ELSE IF RGe(avgSimilarity, Rat(85, 100)) THEN Tenths(9)
                 ELSE IF RGe(avgSimilarity, Tenths(7)) THEN Tenths(7) ELSE Tenths(4))
  ELSE
    LET uniqueCount == UniqueCount(values)
    IN Component("stability",
                 IF uniqueCount = 1 THEN One
                 ELSE IF uniqueCount = 2 THEN Tenths(7) ELSE Tenths(4))

(***************************************************************************)
(* FieldValidators: cross-field rules                                      *)
(***************************************************************************)
\* flights.reduce((sum, flight) => sum + (parseNumeric(flight.units) || 0), 0)
RECURSIVE SumUnits(_)
SumUnits(flights) ==
  IF flights = <<>> THEN 0 ELSE OrZero(Head(flights).units) + SumUnits(Tail(flights))

\* flights.reduce((sum, flight) => sum + (parseNumeric(flight.cost) || 0), 0), in cents
RECURSIVE SumCost(_)
SumCost(flights) ==
  IF flights = <<>> THEN 0 ELSE OrZero(Head(flights).cost) + SumCost(Tail(flights))

\* the impressions check with a tolerance of 1% of the declared total
validateTotalImpressionsMatchFlights_Tolerant(totalImpressions, flights) ==
  IF totalImpressions = Null THEN Component("total_impressions_match", Tenths(7))
  ELSE IF Len(flights) = 0 THEN Component("total_impressions_match", Tenths(5))
  ELSE IF SumUnits(flights) = 0 THEN Component("total_impressions_match", Tenths(3))
  ELSE IF 100 * Abs(totalImpressions[1] - SumUnits(flights)) <= totalImpressions[1]
    THEN Component("total_impressions_match", One)
  ELSE Component("total_impressions_match", Zero)

validateTotalImpressionsMatchFlights(totalImpressions, flights) ==
  IF totalImpressions = Null THEN Component("total_impressions_match", Tenths(7))
  ELSE IF Len(flights) = 0 THEN Component("total_impressions_match", Tenths(5))
  ELSE IF SumUnits(flights) = 0 THEN Component("total_impressions_match", Tenths(3))
  ELSE IF Abs(totalImpressions[1] - SumUnits(flights)) = 0
    THEN Component("total_impressions_match", One)
  ELSE Component("total_impressions_match", Zero)

\* cpm is a nullable rational number of cents; budget is in cents:
\* impliedImpressions = budget / (cpm / 1000), diff = |impressions - implied| / implied.
\* A zero budget or cpm makes diff Infinity or NaN, which fails every comparison.
validateNumericTriangle(budget, cpm, impressions) ==
  IF budget = Null \/ cpm = Null \/ impressions = Null
    THEN Component("numeric_triangle", Tenths(7))
  ELSE IF budget[1] = 0 \/ cpm[1][1] = 0 THEN Component("numeric_triangle", Tenths(2))
  ELSE IF (budget[1] < 0) # (cpm[1][1] < 0) THEN Component("numeric_triangle", One)
  ELSE
    LET diff == Rat(Abs(impressions[1] * cpm[1][1] - budget[1] * 1000 * cpm[1][2]),
                    Abs(budget[1] * 1000 * cpm[1][2]))
    IN IF RLt(diff, Rat(5, 100)) THEN Component("numeric_triangle", One)
       ELSE IF RLt(diff, Rat(15, 100)) THEN Component("numeric_triangle", Tenths(8))
       ELSE IF RLt(diff, Rat(30, 100)) THEN Component("numeric_triangle", Tenths(5))
       ELSE Component("numeric_triangle", Tenths(2))

\* budgetDiff < 0.01 dollars is budgetDiff < 1 cent
validateTotalsMatchSums(flights, totalBudget, totalImpressions) ==
  LET sumBudget == SumCost(flights)
      sumImpressions == SumUnits(flights)
      budgetScore == IF totalBudget = Null THEN Tenths(7)
                     ELSE IF Abs(sumBudget - totalBudget[1]) < 1 THEN One ELSE Zero
      impressionsScore == IF totalImpressions = Null THEN Tenths(7)
                          ELSE IF Abs(sumImpressions - totalImpressions[1]) = 0 THEN One ELSE Zero
  IN Component("totals_match_sums", RDivInt(RAdd(budgetScore, impressionsScore), 2))

\* a variant where the wrong-location factor replaces the collision factor
IdentityMultiplier_Overwriting(name, otherNames, location, wrongPhrases) ==
  LET wrong == /\ location # Null
               /\ location # Some("")
               /\ \E k \in 1..Len(wrongPhrases) : includes(toLowerCase(location[1]), wrongPhrases[k])
  IN IF wrong THEN Tenths(5)
     ELSE IF name # Null /\ \E k \in 1..Len(otherNames) : otherNames[k] = name THEN Tenths(4)
     ELSE One

\* the multiplier of one name: 1.0, 0.4 when it equals another non-null name,
\* then halved when its location holds one of the wrong phrases
IdentityMultiplier(name, otherNames, location, wrongPhrases) ==
  LET base == IF name # Null /\ \E k \in 1..Len(otherNames) : otherNames[k] = name
              THEN Tenths(4) ELSE One
      wrong == /\ location # Null
               /\ location # Some("")
               /\ \E k \in 1..Len(wrongPhrases) : includes(toLowerCase(location[1]), wrongPhrases[k])
  IN IF wrong THEN RMul(base, Tenths(5)) ELSE base

validateIdentityGuard(advertiserName, agencyName, supplierName, advertiserLocation, agencyLocation, supplierLocation) ==
  [advertiser |-> IdentityMultiplier(advertiserName, <<agencyName, supplierName>>,
                                     advertiserLocation, <<"order total", "supplier", "traffic">>),
   agency |-> IdentityMultiplier(agencyName, <<advertiserName, supplierName>>,
                                 agencyLocation, <<"order total", "supplier", "traffic">>),
   supplier |-> IdentityMultiplier(supplierName, <<advertiserName, agencyName>>,
                                   supplierLocation, <<"advertiser", "brand", "client">>)]

(***************************************************************************)
(* ConfidenceAggregator                                                    *)
(***************************************************************************)
\* a variant that weighs validation and upstream confidence evenly
aggregateConfidence_EvenBlend(field, components, multiRunValues, llmConfidence) ==
  LET validationScore == RDivInt(SumScores(components), Len(components))
      llmScore == Rat(llmConfidence[1].find_confidence + llmConfidence[1].value_confidence, 200)
      finalConfidenceScore ==
        IF llmConfidence # Null
        THEN RAdd(RMul(validationScore, Tenths(5)), RMul(llmScore, Tenths(5)))
        ELSE validationScore
      mergedComponents == Append(components, Component("confidence_merge", finalConfidenceScore))
  IN FieldConfidence(field, finalConfidenceScore, StatusOf(finalConfidenceScore),
                     mergedComponents, multiRunValues)

\* llmConfidence is null (undefined) or <<[find_confidence, value_confidence]>>
aggregateConfidence(field, components, multiRunValues, llmConfidence) ==
  LET validationScore == RDivInt(SumScores(components), Len(components))
      llmScore == Rat(llmConfidence[1].find_confidence + llmConfidence[1].value_confidence, 200)
      finalConfidenceScore ==
        IF llmConfidence # Null
        THEN RAdd(RMul(validationScore, Tenths(6)), RMul(llmScore, Tenths(4)))
        ELSE validationScore
      mergedComponents == Append(components, Component("confidence_merge", finalConfidenceScore))
  IN FieldConfidence(field, finalConfidenceScore, StatusOf(finalConfidenceScore),
                     mergedComponents, multiRunValues)

\* data.provenance?.find(test): the first entry passing the test, or null
\* hits are the positions of the entries passing the test
FindProvenance(provenance, hits) ==
  IF hits = {} THEN Null
  ELSE Some(provenance[CHOOSE i \in hits : \A j \in hits : i <= j])

getLLMConfidence(data, fieldName) ==
  LET provenance == FindProvenance(data.provenance,
                                   { i \in DOMAIN data.provenance :
                                       data.provenance[i].field = fieldName })
  IN IF provenance # Null /\ provenance[1].find_confidence # Null
        /\ provenance[1].value_confidence # Null
     THEN Some([find_confidence |-> provenance[1].find_confidence[1],
                value_confidence |-> provenance[1].value_confidence[1]])
     ELSE Null

\* the average of the positive rate_cpm values, a rational, or null
calculateAverageCpm(flights) ==
  LET valid == SelectSeq(flights, LAMBDA f : f.rate_cpm # Null /\ f.rate_cpm[1] > 0)
      SumCpm[i \in 0..Len(valid)] == IF i = 0 THEN 0 ELSE SumCpm[i - 1] + valid[i].rate_cpm[1]
  IN IF Len(valid) = 0 THEN Null ELSE Some(Rat(SumCpm[Len(valid)], Len(valid)))

\* X?.location_hint, with undefined written as the empty string (both are falsy)
HintOf(p) == IF p = Null THEN "" ELSE p[1].location_hint

\* data.provenance?.find(p => p.field === name)?.location_hint
HintByField(data, name) == HintOf(FindProvenance(data.provenance, { i \in DOMAIN data.provenance : data.provenance[i].field = name }))

\* data.provenance?.find(p => p.location_hint?.toLowerCase().includes(word))?.location_hint
HintByText(data, word) ==
  HintOf(FindProvenance(data.provenance, { i \in DOMAIN data.provenance : includes(toLowerCase(data.provenance[i].location_hint), word) }))

\* data.provenance?.find(p => p.field.includes('flight') || p.field.includes('period'))?.location_hint
HintByFlightOrPeriodField(data) ==
  HintOf(FindProvenance(data.provenance, { i \in DOMAIN data.provenance : includes(data.provenance[i].field, "flight") \/ includes(data.provenance[i].field, "period") }))

\* a || b || ... || last
RECURSIVE FirstTruthy(_)
FirstTruthy(candidates) ==
  IF Len(candidates) = 1 \/ Head(candidates) # "" THEN Head(candidates)
  ELSE FirstTruthy(Tail(candidates))

\* the switch of getLocation: the || chain of each field, its default last
LocationFallbacks(data, fieldName) ==
  CASE fieldName = "advertiser_name" ->
         <<HintByField(data, "advertiser_name"), HintByField(data, "brand_name"),
           HintByField(data, "client_name"), HintByText(data, "advertiser"),
           HintByText(data, "brand"), HintByText(data, "primary ad server"),
           "advertiser/brand section">>
    [] fieldName = "agency_name" ->
         <<HintByField(data, "agency_name"), HintByField(data, "agency"),
           HintByText(data, "agency"), HintByText(data, "from"), "agency/from section">>
    [] fieldName = "total_campaign_spend" ->
         <<HintByField(data, "total_campaign_spend"), HintByField(data, "budget"),
           HintByField(data, "total_spend"), HintByText(data, "total"),
           HintByText(data, "budget"), "budget/total section">>
    [] fieldName = "total_contracted_impressions" ->
         <<HintByField(data, "total_contracted_impressions"), HintByField(data, "impressions"),
           HintByField(data, "total_impressions"), HintByText(data, "impressions"),
           HintByText(data, "total"), "impressions/total section">>
    [] fieldName = "po_number" ->
         <<HintByField(data, "po_number"), HintByField(data, "order_number"),
           HintByText(data, "po"), HintByText(data, "order"), "order/po section">>
    [] fieldName = "frequency_cap" ->
         <<HintByField(data, "frequency_cap"), HintByField(data, "frequency"),
           HintByText(data, "frequency"), HintByText(data, "cap"),
           "frequency/targeting section">>
    [] fieldName = "currency" ->
         <<HintByField(data, "currency"), HintByField(data, "total_campaign_spend"),
           HintByText(data, "currency"), "derived from spend field">>
    [] fieldName = "start_date" ->
         <<HintByField(data, "campaign_total_flight.start"), HintByField(data, "start_date"),
           HintByField(data, "start"), HintByText(data, "start"),
           HintByFlightOrPeriodField(data), "campaign dates section">>
    [] fieldName = "end_date" ->
         <<HintByField(data, "campaign_total_flight.end"), HintByField(data, "end_date"),
           HintByField(data, "end"), HintByText(data, "end"),
           HintByFlightOrPeriodField(data), "campaign dates section">>
    [] fieldName = "period_start" ->
         <<HintByField(data, "period.start"), HintByField(data, "period_start"),
           HintByField(data, "period"), HintByText(data, "period"),
           "inferred from flight dates">>
    [] fieldName = "period_end" ->
         <<HintByField(data, "period.end"), HintByField(data, "period_end"),
           HintByField(data, "period"), HintByText(data, "period"),
           "inferred from flight dates">>
    [] fieldName = "account_executive_name" ->
         <<HintByField(data, "account_executive_name"), HintByField(data, "account_executive"),
           HintByField(data, "ae_name"), HintByText(data, "account executive"),
           HintByText(data, "ae"), "account executive section">>
    [] OTHER ->
         <<HintOf(FindProvenance(data.provenance, { i \in DOMAIN data.provenance : includes(toLowerCase(data.provenance[i].field), toLowerCase(fieldName)) })),
           HintOf(FindProvenance(data.provenance, { i \in DOMAIN data.provenance : includes(toLowerCase(fieldName), toLowerCase(data.provenance[i].field)) })),
           "document content">>

\* the closure getLocation of calculateConfidence: a string
getLocation(data, fieldName) ==
  LET provenance == FindProvenance(data.provenance, { i \in DOMAIN data.provenance : data.provenance[i].field = fieldName })
  IN IF provenance # Null THEN provenance[1].location_hint
     ELSE FirstTruthy(LocationFallbacks(data, fieldName))

\* a date string as text, for the string comparison of the stability check
Pad(n, width) ==
  LET t == ToString(n)
  IN SubSeq("0000", 1, width - Len(t)) \o t

DateText(s) == Pad(s[1], 4) \o "-" \o Pad(s[2], 2) \o "-" \o Pad(s[3], 2)

NullableDateText(s) == IF s = Null THEN Null ELSE Some(DateText(s))

\* a || b on nullable values
OrElse(a, b) == IF a # Null THEN a ELSE b

\* run.campaign_total_flight?.start and the like; undefined is written null
StartOf(range) == IF range = Null THEN Null ELSE range.start

EndOf(range) == IF range = Null THEN Null ELSE range.end

\* the value one run contributes to getStabilityValues
StabilityValue(run, fieldName) ==
  CASE fieldName = "advertiser_name" -> run.advertiser_name
    [] fieldName = "agency_name" -> run.agency_name
    [] fieldName = "total_campaign_spend" -> run.total_campaign_spend
    [] fieldName = "total_contracted_impressions" -> run.total_contracted_impressions
    [] fieldName = "po_number" -> run.po_number
    [] fieldName = "frequency_cap" -> run.frequency_cap
    [] fieldName = "account_executive_name" -> run.account_executive_name
    [] fieldName = "currency" -> run.currency
    [] fieldName = "start_date" ->
         NullableDateText(OrElse(run.start, StartOf(run.campaign_total_flight)))
    [] fieldName = "end_date" ->
         NullableDateText(OrElse(run.end, EndOf(run.campaign_total_flight)))
    [] fieldName = "period_start" -> NullableDateText(StartOf(run.period))
    [] fieldName = "period_end" -> NullableDateText(EndOf(run.period))
    [] OTHER -> Null

\* the closure getStabilityValues; multiRunData is a sequence, empty when absent
getStabilityValues(multiRunData, fieldName) ==
  [i \in 1..Len(multiRunData) |-> StabilityValue(multiRunData[i], fieldName)]

\* a variant that counts on from an index a flight already has
IndexedFlights_Shifted(flights) ==
  [i \in 1..Len(flights) |->
     [flights[i] EXCEPT !.index = IF @ = Null THEN Some(i) ELSE Some(@[1] + 1)]]

\* data.flights after `flight.index = index + 1`
IndexedFlights(flights) == [i \in 1..Len(flights) |-> [flights[i] EXCEPT !.index = Some(i)]]

\* the fieldType handed to validateStability for each field
StabilityType(fieldName) ==
  CASE fieldName = "total_campaign_spend" -> "other"
    [] fieldName = "total_contracted_impressions" -> "number"
    [] fieldName = "frequency_cap" -> "number"
    [] OTHER -> "string"

\* the format component that leads the components of the two totals
FormatComponents(data, fieldName) ==
  CASE fieldName = "total_campaign_spend" -> <<validateBudgetFormat(data.total_campaign_spend)>>
    [] fieldName = "total_contracted_impressions" ->
         <<validateImpressionsFormat(data.total_contracted_impressions)>>
    [] OTHER -> <<>>

\* a variant where the rate of the flights comes first and the argument is
\* the fallback
EffectiveCpm_FlightsFirst(data, cpm) ==
  IF calculateAverageCpm(data.flights) # Null THEN calculateAverageCpm(data.flights)
  ELSE IF cpm # Null /\ cpm[1] # 0 THEN Some(Rat(cpm[1], 1))
  ELSE Null

\* cpm || calculateAverageCpm(data.flights || []), a nullable rational
EffectiveCpm(data, cpm) ==
  IF cpm # Null /\ cpm[1] # 0 THEN Some(Rat(cpm[1], 1)) ELSE calculateAverageCpm(data.flights)

\* budgetComponents.push(...): numeric triangle, then totals against sums
BudgetCrossChecks(data, cpm) ==
  (IF cpm # Null /\ cpm[1] # 0
      /\ data.total_contracted_impressions # Null /\ data.total_contracted_impressions[1] # 0
   THEN <<validateNumericTriangle(data.total_campaign_spend, Some(Rat(cpm[1], 1)),
                                  data.total_contracted_impressions)>>
   ELSE <<>>)
  \o (IF Len(data.flights) > 0
      THEN <<validateTotalsMatchSums(data.flights, data.total_campaign_spend,
                                     data.total_contracted_impressions)>>
      ELSE <<>>)

\* the impressions total against the flights, then the numeric triangle
ImpressionsCrossChecks(data, effectiveCpm) ==
  <<validateTotalImpressionsMatchFlights(data.total_contracted_impressions, data.flights)>>
  \o (IF effectiveCpm # Null /\ effectiveCpm[1][1] # 0
         /\ data.total_campaign_spend # Null /\ data.total_campaign_spend[1] # 0
      THEN <<validateNumericTriangle(data.total_campaign_spend, effectiveCpm,
                                     data.total_contracted_impressions)>>
      ELSE <<>>)

CrossChecks(data, cpm, fieldName) ==
  CASE fieldName = "total_campaign_spend" -> BudgetCrossChecks(data, cpm)
    [] fieldName = "total_contracted_impressions" ->
         ImpressionsCrossChecks(data, EffectiveCpm(data, cpm))
    [] OTHER -> <<>>

\* a variant that takes a name of spaces only for a name
AccountExecutiveMissing_Untrimmed(data) ==
  data.account_executive_name = Null \/ data.account_executive_name[1] = ""

\* !(data.account_executive_name && data.account_executive_name.trim() !== '')
AccountExecutiveMissing(data) ==
  data.account_executive_name = Null \/ trim(data.account_executive_name[1]) = ""

\* the components of a top-level field: [format,] span quality, stability
\* [, cross checks]; a missing account executive has the one 0.0 component
FieldComponents(data, cpm, fieldName, values) ==
  IF fieldName = "account_executive_name" /\ AccountExecutiveMissing(data)
  THEN <<Component("account_executive_missing", Zero)>>
  ELSE FormatComponents(data, fieldName)
       \o <<validateSpanQuality(fieldName, Some(getLocation(data, fieldName))),
            validateStability(values, StabilityType(fieldName))>>
       \o CrossChecks(data, cpm, fieldName)

\* fieldConfidences.push(aggregateConfidence(field, components, values, getLLMConfidence(data, field)))
AggregatedField(data, cpm, fieldName, values) ==
  aggregateConfidence(fieldName, FieldComponents(data, cpm, fieldName, values), values,
                      getLLMConfidence(data, fieldName))

TopLevelConfidence(data, multiRunData, cpm, fieldName) ==
  AggregatedField(data, cpm, fieldName, getStabilityValues(multiRunData, fieldName))

\* the flight entries, each flight validated against the campaign period
FlightEntries(flights, campaignStart, campaignEnd) ==
  [i \in 1..Len(flights) |-> validateIndividualFlight(flights[i], campaignStart, campaignEnd)]

FlightConfidences(data) ==
  FlightEntries(IndexedFlights(data.flights),
                OrElse(data.start, StartOf(data.campaign_total_flight)),
                OrElse(data.end, EndOf(data.campaign_total_flight)))

\* the fields pushed before the flights
LeadingFields ==
  <<"advertiser_name", "agency_name", "total_campaign_spend",
    "total_contracted_impressions", "po_number", "frequency_cap">>

\* the fields pushed after the flights: the account executive always, the
\* others only when the document has them
TrailingFields(data) ==
  <<"account_executive_name">>
  \o (IF data.currency # Null /\ data.currency # Some("") THEN <<"currency">> ELSE <<>>)
  \o (IF OrElse(data.start, StartOf(data.campaign_total_flight)) # Null
      THEN <<"start_date">> ELSE <<>>)
  \o (IF OrElse(data.end, EndOf(data.campaign_total_flight)) # Null
      THEN <<"end_date">> ELSE <<>>)
  \o (IF StartOf(data.period) # Null THEN <<"period_start">> ELSE <<>>)
  \o (IF EndOf(data.period) # Null THEN <<"period_end">> ELSE <<>>)

\* the entries of the top-level fields named, in that order
TopLevelConfidences(data, multiRunData, cpm, fieldNames) ==
  [k \in 1..Len(fieldNames) |-> TopLevelConfidence(data, multiRunData, cpm, fieldNames[k])]

\* fieldConfidences as pushed: the leading fields, the flights, the rest
Interleaved(topLevel, flightConfidences) ==
  SubSeq(topLevel, 1, Len(LeadingFields))
  \o flightConfidences
  \o SubSeq(topLevel, Len(LeadingFields) + 1, Len(topLevel))

PushedConfidences(data, multiRunData, cpm) ==
  Interleaved(TopLevelConfidences(data, multiRunData, cpm, LeadingFields \o TrailingFields(data)),
              FlightConfidences(data))

\* a variant that leaves the recalculated total undivided
ApplyIdentityGuard_Total(fieldConf, multiplier) ==
  [fieldConf EXCEPT !.confidence_score = SumScores(fieldConf.components)]

\* the identity-guard pass over one entry: the cross_field components are
\* scaled and confidence_score becomes the mean of all components (status is
\* left as it was)
ApplyIdentityGuard(fieldConf, multiplier) ==
  LET components == [i \in 1..Len(fieldConf.components) |->
                       [fieldConf.components[i] EXCEPT
                          !.score = IF includes(fieldConf.components[i].name, "cross_field")
                                    THEN RMul(@, multiplier) ELSE @]]
  IN [fieldConf EXCEPT !.components = components,
                       !.confidence_score = RDivInt(SumScores(components), Len(components))]

GuardedConfidence(fieldConf, identityMultipliers) ==
  IF fieldConf.field = "advertiser_name" /\ identityMultipliers.advertiser # One
    THEN ApplyIdentityGuard(fieldConf, identityMultipliers.advertiser)
  ELSE IF fieldConf.field = "agency_name" /\ identityMultipliers.agency # One
    THEN ApplyIdentityGuard(fieldConf, identityMultipliers.agency)
  ELSE fieldConf

RECURSIVE SumConfidence(_)
SumConfidence(fieldConfidences) ==
  IF fieldConfidences = <<>> THEN Zero
  ELSE RAdd(Head(fieldConfidences).confidence_score, SumConfidence(Tail(fieldConfidences)))

CountStatus(fieldConfidences, status) ==
  Cardinality({ i \in 1..Len(fieldConfidences) : fieldConfidences[i].status = status })

\* the identity-guard pass over all entries
GuardedConfidences(pushed, identityMultipliers) ==
  [i \in 1..Len(pushed) |-> GuardedConfidence(pushed[i], identityMultipliers)]

\* a variant that counts the entries by where their scores fall
ConfidenceReport_Recounted(fieldConfidences) ==
  [overall_score |-> RDivInt(SumConfidence(fieldConfidences), Len(fieldConfidences)),
   field_confidences |-> fieldConfidences,
   summary |->
     [use_count |-> Cardinality({ i \in 1..Len(fieldConfidences) :
                                    StatusOf(fieldConfidences[i].confidence_score) = "use" }),
      review_count |-> Cardinality({ i \in 1..Len(fieldConfidences) :
                                       StatusOf(fieldConfidences[i].confidence_score) = "review" }),
      reject_count |-> Cardinality({ i \in 1..Len(fieldConfidences) :
                                       StatusOf(fieldConfidences[i].confidence_score) = "reject" })]]

\* the ConfidenceReport over the final entries
ConfidenceReport(fieldConfidences) ==
  [overall_score |-> RDivInt(SumConfidence(fieldConfidences), Len(fieldConfidences)),
   field_confidences |-> fieldConfidences,
   summary |-> [use_count |-> CountStatus(fieldConfidences, "use"),
                review_count |-> CountStatus(fieldConfidences, "review"),
                reject_count |-> CountStatus(fieldConfidences, "reject")]]

\* validateIdentityGuard(data.advertiser_name, data.agency_name, null,
\*   getLocation('advertiser_name'), getLocation('agency_name'), null)
IdentityMultipliers(data) ==
  validateIdentityGuard(data.advertiser_name, data.agency_name, Null,
                        Some(getLocation(data, "advertiser_name")),
                        Some(getLocation(data, "agency_name")), Null)

\* calculateConfidence(data, multiRunData, cpm): the report, and data.flights
\* as the call leaves them (each flight's index is overwritten)
calculateConfidence(data, multiRunData, cpm) ==
  [report |-> ConfidenceReport(GuardedConfidences(PushedConfidences(data, multiRunData, cpm),
                                                  IdentityMultipliers(data))),
   flights |-> IndexedFlights(data.flights)]

(***************************************************************************)
(* Inputs                                                                  *)
(***************************************************************************)
\* the number of consecutive calendar months, from December 2023 on (a year
\* boundary and a leap February), that flight dates are drawn from
WindowMonths == 4

\* the most flights a scored document carries
MaxFlights == 2

\* the w-th month of the window, as <<y, m>>
WindowMonth(w) == <<2023 + ((11 + w) \div 12), ((11 + w) % 12) + 1>>

\* per month: the first two days, a middle day and the last two days
WindowDates ==
  UNION { LET ym == WindowMonth(w)
              dim == getDaysInMonth(ym[1], ym[2])
          IN { <<ym[1], ym[2], d>> : d \in {1, 2, 15, dim - 1, dim} }
          : w \in 0..(WindowMonths - 1) }

Unparseable == <<0, 0, 0>>

FlightDateInputs == WindowDates \cup {Null, Unparseable}

\* a flight as the parser emits it (name, unit_type, cost_method, currency and
\* provenance are carried along untouched and left out)
Flight(start, end, units, rate_cpm, cost) ==
  [index |-> Null, placement_id |-> Null, start |-> start, end |-> end,
   units |-> units, rate_cpm |-> rate_cpm, cost |-> cost]

Provenance(field, location_hint, find_confidence, value_confidence) ==
  [field |-> field, location_hint |-> location_hint,
   find_confidence |-> find_confidence, value_confidence |-> value_confidence]

DateRange(start, end) == [start |-> start, end |-> end]

\* a parsed document: every field the segmenter and the scoring read
BaseDocument ==
  [advertiser_name |-> Some("Taco Bell"),
   agency_name |-> Some("Spark Foundry"),
   campaign_total_flight |-> Null,
   start |-> Null,
   end |-> Null,
   total_contracted_impressions |-> Null,
   total_campaign_spend |-> Null,
   currency |-> Some("USD"),
   po_number |-> Some("O-1A2B3"),
   account_executive_name |-> Some("Dana Lee"),
   frequency_cap |-> Some(2),
   period |-> Null,
   flights |-> <<>>,
   explanation |-> [assumptions |-> <<>>],
   provenance |-> <<>>]

Document(flights, spend, impressions) ==
  [BaseDocument EXCEPT !.flights = flights,
                       !.total_campaign_spend = spend,
                       !.total_contracted_impressions = impressions]

\* the arguments of calculateConfidence besides the document
Arguments(multiRunData, cpm) == [multiRunData |-> multiRunData, cpm |-> cpm]

NoArguments == Arguments(<<>>, Null)

SegmenterFlights ==
  { Flight(s, e, u, Some(1000), c) :
      s \in FlightDateInputs, e \in FlightDateInputs,
      u \in {Null, Some(1), Some(2), Some(700)}, c \in {Null, Some(1), Some(70000)} }

SegmenterDocuments ==
  { Document(<<f>>, t[1], t[2]) :
      f \in SegmenterFlights, t \in {<<Null, Null>>, <<Some(70000), Some(700)>>} }

\* one flight per document, scored against a campaign window: dates in and
\* out of the window, missing and unparseable dates, and costs on both sides
\* of the 0.1% bound around rate 10.00 x 100,000 units = 1,000.00
FlightScoringFlights ==
  { Flight(s, e, u, r, c) :
      s \in {<<2024, 1, 15>>, <<2024, 2, 1>>, Unparseable},
      e \in {<<2024, 1, 31>>, <<2024, 1, 1>>, Null},
      u \in {Null, Some(0), Some(500), Some(100000)},
      r \in {Null, Some(0), Some(1000)},
      c \in {Null, Some(0), Some(99900), Some(100000), Some(100099), Some(100100)} }

CampaignWindows ==
  {Null, DateRange(<<2024, 1, 1>>, <<2024, 1, 31>>), DateRange(<<2024, 1, 20>>, <<2024, 2, 29>>)}

FlightScoringDocuments ==
  { [Document(<<f>>, Some(100000), Some(100000)) EXCEPT !.campaign_total_flight = w] :
      f \in FlightScoringFlights, w \in CampaignWindows }

\* up to MaxFlights flights against declared totals of 10,000.00 and 1,000,000:
\* sums that match, that are a dollar or ten units off, and that are zero
TotalsFlights ==
  { Flight(<<2024, 1, 1>>, <<2024, 1, 31>>, u, Some(1000), c) :
      u \in {Some(0), Some(499990), Some(500000)}, c \in {Some(500000), Some(500100)} }

RECURSIVE SeqsUpTo(_, _)
SeqsUpTo(S, n) ==
  IF n = 0 THEN {<<>>}
  ELSE LET shorter == SeqsUpTo(S, n - 1)
       IN shorter \cup { Append(q, x) : q \in shorter, x \in S }

TotalsProvenance ==
  { <<>>,
    <<Provenance("total_campaign_spend", "Order Total row", Some(100), Some(100)),
      Provenance("total_contracted_impressions", "Order Total row", Some(100), Some(100))>>,
    <<Provenance("total_campaign_spend", "page 2", Some(40), Some(60)),
      Provenance("total_contracted_impressions", "page 2", Null, Null)>> }

TotalsDocuments ==
  { [Document(fs, spend, imps) EXCEPT !.provenance = prov] :
      fs \in SeqsUpTo(TotalsFlights, MaxFlights),
      spend \in {Null, Some(1000000)},
      imps \in {Null, Some(0), Some(1000000)},
      prov \in TotalsProvenance }

\* no runs and no CPM override, or three parses that agree and a CPM of 10.00
TotalsArguments(doc) == {NoArguments, Arguments(<<doc, doc, doc>>, Some(1000))}

\* a flight that passes every flight check
GoodFlight == Flight(<<2024, 1, 1>>, <<2024, 1, 31>>, Some(100000), Some(1000), Some(100000))

\* the provenance entry of advertiser_name: none, or found under an
\* advertiser heading or in the supplier block, with upstream confidences on
\* the parser's scale of 0..100, or without find_confidence
AdvertiserProvenance ==
  {<<>>} \cup { <<Provenance("advertiser_name", hint, f, v)>> :
                  hint \in {"Advertiser header", "Supplier block"},
                  f \in {Null, Some(0), Some(100)}, v \in {Some(0), Some(60), Some(100)} }

\* documents whose advertiser is its own name or the agency's name again, with
\* one good flight or a second one whose cost is off, and the agency found
\* under its own heading or at the traffic desk
IdentityDocuments ==
  { [Document(fs, Some(100000), Some(100000)) EXCEPT
       !.advertiser_name = Some(name), !.provenance = adv \o agy] :
      fs \in {<<GoodFlight>>, <<GoodFlight, [GoodFlight EXCEPT !.cost = Some(100100)]>>},
      name \in {"Taco Bell", "Spark Foundry"},
      adv \in AdvertiserProvenance,
      agy \in { <<>>,
                <<Provenance("agency_name", "Agency: header", Some(100), Some(100))>>,
                <<Provenance("agency_name", "Traffic desk", Some(20), Some(30))>> } }

\* no runs, or three parses that agree
IdentityArguments(doc) == {NoArguments, Arguments(<<doc, doc, doc>>, Null)}

\* the advertiser as independent parses may spell it
StabilityNames ==
  {"Taco Bell", "TACO BELL", "taco  bell", "Taco Bell Corp", "Taco Bell Corp.",
   "Taco Bell (22-X)", "Pepsi"}

Run(name) == [BaseDocument EXCEPT !.advertiser_name = Some(name)]

\* two or three parses that differ in the advertiser's name only
StabilityArguments ==
  { Arguments(<<Run(a), Run(b), Run(c)>>, Null) :
      a \in StabilityNames, b \in StabilityNames, c \in StabilityNames }
  \cup { Arguments(<<Run(a), Run(b)>>, Null) :
           a \in {"Taco Bell", "Pepsi"}, b \in StabilityNames }

\* documents sent through the whole pipeline: a first flight whose dates are
\* missing, do not parse, or lie in one month or across months, alone or
\* followed by a good flight or by a flight across two months whose cost is
\* exactly rate x units / 1000 (12.00 x 1,000 / 1000 = 12.00)
\* (campaign_total_flight and period are both null or both the first quarter)
PipelineDocuments ==
  { [Document(<<Flight(s, e, Some(700), Some(1000), Some(70000))>> \o rest,
              Some(170000), Some(100700)) EXCEPT
       !.campaign_total_flight = w, !.period = w, !.provenance = prov] :
      s \in {Unparseable, Null, <<2024, 1, 15>>, <<2024, 2, 10>>},
      e \in {Unparseable, Null, <<2024, 1, 20>>, <<2024, 2, 15>>, <<2024, 3, 1>>},
      rest \in {<<>>, <<GoodFlight>>,
               <<Flight(<<2024, 1, 15>>, <<2024, 2, 15>>, Some(1000), Some(1200), Some(1200))>>},
      w \in {Null, DateRange(<<2024, 1, 1>>, <<2024, 3, 31>>)},
      prov \in {<<>>, <<Provenance("advertiser_name", "Advertiser header", Some(100), Some(100))>>} }

(***************************************************************************)
(* The pipeline as a state machine                                         *)
(***************************************************************************)
\* what the call leaves behind: the returned { io, summary }, and the notes
\* pushed onto the input's explanation
Normalized(r) ==
  /\ result' = [io |-> r.io, summary |-> r.summary]
  /\ io' = [io EXCEPT !.explanation = r.explanation]

\* runStage4: const { io: processedData } = applyFlightLogic(primary)
ApplyFlightLogic ==
  /\ pc = "parsed"
  /\ Normalized(applyFlightLogic(io))
  /\ pc' = "normalized"
  /\ UNCHANGED <<args, report, simplified>>

\* what the call leaves behind: the report, and each flight's index overwritten
Scored(r) ==
  /\ report' = r.report
  /\ io' = [io EXCEPT !.flights = r.flights]

\* calculateConfidence(io, args.multiRunData, args.cpm)
CalculateConfidence ==
  /\ pc = "parsed"
  /\ Scored(calculateConfidence(io, args.multiRunData, args.cpm))
  /\ pc' = "scored"
  /\ UNCHANGED <<args, result, simplified>>

\* a second calculateConfidence(io, args.multiRunData, args.cpm) on the very
\* same objects, as the first call left them
CalculateConfidenceAgain ==
  /\ pc = "scored"
  /\ Scored(calculateConfidence(io, args.multiRunData, args.cpm))
  /\ pc' = "rescored"
  /\ UNCHANGED <<args, result, simplified>>

\* runStage4: the flights and the provenance entries of processedData rebuilt
\* field by field (segment_days and proration_factor are not carried over, and
\* the rebuilt provenance has no find_confidence or value_confidence)
ConvertedFlights(flights) ==
  [i \in 1..Len(flights) |->
     [index |-> flights[i].index, placement_id |-> flights[i].placement_id,
      start |-> flights[i].start, end |-> flights[i].end, units |-> flights[i].units,
      rate_cpm |-> flights[i].rate_cpm, cost |-> flights[i].cost]]

ConvertedProvenance(provenance) ==
  [i \in 1..Len(provenance) |->
     Provenance(provenance[i].field, provenance[i].location_hint, Null, Null)]

\* runStage4: ioData, which has no start or end of its own
IODataOf(processedData) ==
  [processedData EXCEPT !.flights = ConvertedFlights(@),
                        !.provenance = ConvertedProvenance(@),
                        !.start = Null, !.end = Null]

\* runStage4: confidenceReport = calculateConfidence(ioData, allRuns, undefined)
CalculateConfidenceOfProcessed ==
  /\ pc = "normalized"
  /\ report' = calculateConfidence(IODataOf(result.io), args.multiRunData, Null).report
  /\ pc' = "reported"
  /\ UNCHANGED <<io, args, result, simplified>>

\* transformToSimplifiedOutput(data), data being finalData = { ...ioData,
\* confidence: confidenceReport }; the reason of a row, a note, is left out.
\* X?.start and X?.end of a nullable range are undefined when the range is
\* null, and undefined !== null is true: notNull is the test value !== null.
transformToSimplifiedOutput(data) ==
  LET confidenceReport == data.confidence
      getFieldConfidence(fieldName) ==
        LET hits == { i \in 1..Len(confidenceReport.field_confidences) :
                        confidenceReport.field_confidences[i].field = fieldName }
        IN IF hits = {} THEN Null
           ELSE Some(confidenceReport.field_confidences[CHOOSE i \in hits : \A j \in hits : i <= j])
      Mapping(field, value) ==
        [field |-> field, confFieldName |-> field, value |-> value, notNull |-> value # Null]
      OptionalMapping(field, confFieldName, range, value) ==
        [field |-> field, confFieldName |-> confFieldName, value |-> value,
         notNull |-> range = Null \/ value # Null]
      fieldMappings ==
        <<Mapping("advertiser_name", data.advertiser_name),
          Mapping("agency_name", data.agency_name),
          OptionalMapping("campaign_start_date", "start_date", data.campaign_total_flight,
                          StartOf(data.campaign_total_flight)),
          OptionalMapping("campaign_end_date", "end_date", data.campaign_total_flight,
                          EndOf(data.campaign_total_flight)),
          Mapping("total_contracted_impressions", data.total_contracted_impressions),
          Mapping("total_campaign_spend", data.total_campaign_spend),
          Mapping("currency", data.currency),
          Mapping("po_number", data.po_number),
          Mapping("account_executive_name", data.account_executive_name),
          Mapping("frequency_cap", data.frequency_cap),
          OptionalMapping("period_start", "period_start", data.period, StartOf(data.period)),
          OptionalMapping("period_end", "period_end", data.period, EndOf(data.period))>>
      Pushed(mapping) == getFieldConfidence(mapping.confFieldName) # Null \/ mapping.notNull
      FieldData(mapping) ==
        LET fieldConf == getFieldConfidence(mapping.confFieldName)
        IN [field |-> mapping.field,
            value |-> mapping.value,
            confidence |-> IF fieldConf = Null THEN Rat(1, 2) ELSE fieldConf[1].confidence_score,
            status |-> IF fieldConf = Null THEN "review" ELSE fieldConf[1].status,
            needs_review |-> fieldConf # Null /\ fieldConf[1].status \in {"review", "reject"}]
      pushedMappings == SelectSeq(fieldMappings, Pushed)
      fields == [i \in 1..Len(pushedMappings) |-> FieldData(pushedMappings[i])]
      flights ==
        [i \in 1..Len(data.flights) |->
           LET flightConf == getFieldConfidence("flight_" \o ToString(i))
           IN [index |-> data.flights[i].index, placement_id |-> data.flights[i].placement_id,
               start |-> data.flights[i].start, end |-> data.flights[i].end,
               units |-> data.flights[i].units, rate_cpm |-> data.flights[i].rate_cpm,
               cost |-> data.flights[i].cost,
               confidence |-> IF flightConf = Null THEN Tenths(8) ELSE flightConf[1].confidence_score,
               status |-> IF flightConf = Null THEN "use" ELSE flightConf[1].status,
               needs_review |-> flightConf # Null /\ flightConf[1].status \in {"review", "reject"}]]
      Count(status) ==
        Cardinality({ i \in 1..Len(fields) : fields[i].status = status })
        + Cardinality({ i \in 1..Len(flights) : flights[i].status = status })
  IN [fields |-> fields,
      flights |-> flights,
      overall_confidence |-> confidenceReport.overall_score,
      needs_review |-> Count("review") > 0 \/ Count("reject") > 0,
      summary |-> [total_fields |-> Len(fields) + Len(flights),
                   use_count |-> Count("use"),
                   review_count |-> Count("review"),
                   reject_count |-> Count("reject")]]

\* runStage4: simplifiedData = transformToSimplifiedOutput(finalData), where
\* the flights of ioData carry the index calculateConfidence gave them
TransformToSimplifiedOutput ==
  /\ pc = "reported"
  /\ simplified' = transformToSimplifiedOutput(
                      [confidence |-> report] @@
                      [IODataOf(result.io) EXCEPT !.flights = IndexedFlights(@)])
  /\ pc' = "simplified"
  /\ UNCHANGED <<io, args, result, report>>

InitSegmenter ==
  /\ pc = "parsed"
  /\ io \in SegmenterDocuments
  /\ args = NoArguments
  /\ result = Null
  /\ report = Null
  /\ simplified = Null

NextSegmenter == ApplyFlightLogic

SpecSegmenter == InitSegmenter /\ [][NextSegmenter]_vars

InitConfidence ==
  /\ pc = "parsed"
  /\ \/ io \in FlightScoringDocuments /\ args = NoArguments
     \/ io \in TotalsDocuments /\ args \in TotalsArguments(io)
  /\ result = Null
  /\ report = Null
  /\ simplified = Null

NextConfidence == CalculateConfidence

SpecConfidence == InitConfidence /\ [][NextConfidence]_vars

InitFields ==
  /\ pc = "parsed"
  /\ \/ io \in IdentityDocuments /\ args \in IdentityArguments(io)
     \/ io = Document(<<GoodFlight>>, Some(100000), Some(100000)) /\ args \in StabilityArguments
     \/ /\ io \in {Document(<<Flight(s, e, Some(100000), Some(1000), Some(100000))>>, Some(100000), Some(100000)) :
                      s \in {Null, Unparseable, <<2024, 1, 10>>, <<2024, 1, 20>>},
                      e \in {Null, Unparseable, <<2024, 1, 10>>, <<2024, 1, 20>>}}
        /\ args = NoArguments
     \/ /\ io \in {Document(<<Flight(<<2024, 1, 1>>, <<2024, 1, 31>>, Some(100000), rate, Some(100000))>>, Some(100000), Some(100000)) :
                      rate \in {Null, Some(0), Some(1000)}}
        /\ args \in {Arguments(<<>>, cpm) : cpm \in {Null, Some(0), Some(1000), Some(2000)}}
     \/ /\ io \in {[Document(<<GoodFlight>>, Some(100000), Some(100000)) EXCEPT
                       !.account_executive_name = ae, !.provenance = prov] :
                      ae \in {Null, Some(""), Some("  "), Some("Dana Lee")},
                      prov \in {<<>>} \cup
                        {<<Provenance("account_executive_name", "Account Executive: line", Some(f), Some(v))>> :
                           f \in {0, 100}, v \in {50, 100}}}
        /\ args \in {NoArguments, Arguments(<<io, io, io>>, Null),
                     Arguments(<<BaseDocument, BaseDocument, BaseDocument>>, Null)}
  /\ result = Null
  /\ report = Null
  /\ simplified = Null

NextFields == CalculateConfidence \/ CalculateConfidenceAgain

SpecFields == InitFields /\ [][NextFields]_vars

\* runStage4 on a parsed document: the three runs are the document itself
InitPipeline ==
  /\ pc = "parsed"
  /\ io \in PipelineDocuments
  /\ args = Arguments(<<io, io, io>>, Null)
  /\ result = Null
  /\ report = Null
  /\ simplified = Null

NextPipeline == ApplyFlightLogic \/ CalculateConfidenceOfProcessed \/ TransformToSimplifiedOutput

SpecPipeline == InitPipeline /\ [][NextPipeline]_vars

(***************************************************************************)
(* Properties of the segmenter (SpecSegmenter: one flight per document)    *)
(***************************************************************************)
TheFlight == io.flights[1]

Segments == result.io.flights

BothParse(f) == IsValidDateString(f.start) /\ IsValidDateString(f.end)

ValidRange(f) == BothParse(f) /\ DayOf(f.start) <= DayOf(f.end)

StartAfterEnd(f) == BothParse(f) /\ DayOf(f.start) > DayOf(f.end)

SameCalendarMonth(f) == f.start[1] = f.end[1] /\ f.start[2] = f.end[2]

IsPartition(f, segs) ==
  /\ Len(segs) >= 1
  /\ segs[1].start = f.start
  /\ segs[Len(segs)].end = f.end
  /\ \A i \in 1..Len(segs) : DayOf(segs[i].start) <= DayOf(segs[i].end)
  /\ \A i \in 1..(Len(segs) - 1) : DayOf(segs[i + 1].start) = DayOf(segs[i].end) + 1

\* C1 (P1, partition): the segments of every flight with parseable dates and
\* start <= end, an end date on the first day of a month included, are non-empty,
\* chronologically ordered and partition [flight.start, flight.end].
C1_Partition ==
  (pc = "normalized" /\ ValidRange(TheFlight)) => IsPartition(TheFlight, Segments)

\* C2 (P2, conservation): the units of the segments sum to flight.units and
\* their costs (cents) sum to flight.cost, for every flight with start <= end
\* and non-null units and cost.
C2_Conservation ==
  (pc = "normalized" /\ ValidRange(TheFlight)
     /\ TheFlight.units # Null /\ TheFlight.cost # Null) =>
    /\ Len(Segments) >= 1
    /\ \A i \in 1..Len(Segments) : Segments[i].units # Null /\ Segments[i].cost # Null
    /\ SumUnits(Segments) = TheFlight.units[1]
    /\ SumCost(Segments) = TheFlight.cost[1]

\* a flight split into three or more segments whose shares are not whole:
\* the earlier segments are rounded and the last one absorbs the drift
C2_Witness ==
  /\ pc = "normalized"
  /\ ValidRange(TheFlight)
  /\ TheFlight.units = Some(700) /\ TheFlight.cost = Some(70000)
  /\ Len(Segments) >= 3
  /\ \E i \in 1..(Len(Segments) - 1) :
       (700 * Segments[i].segment_days) % (DayOf(TheFlight.end) - DayOf(TheFlight.start) + 1) # 0

\* C3 (P3, single-month passthrough): a flight within one calendar month yields
\* exactly one segment with the flight's own start, end, units and cost,
\* segment_days = the inclusive day count and proration_factor = 1.0.
C3_SingleMonthPassthrough ==
  (pc = "normalized" /\ ValidRange(TheFlight) /\ SameCalendarMonth(TheFlight)) =>
    /\ Len(Segments) = 1
    /\ Segments[1].start = TheFlight.start
    /\ Segments[1].end = TheFlight.end
    /\ Segments[1].units = TheFlight.units
    /\ Segments[1].cost = TheFlight.cost
    /\ Segments[1].segment_days = DayOf(TheFlight.end) - DayOf(TheFlight.start) + 1
    /\ Segments[1].proration_factor = 10000

C3_Witness ==
  /\ pc = "normalized"
  /\ ValidRange(TheFlight) /\ SameCalendarMonth(TheFlight)
  /\ DayOf(TheFlight.start) < DayOf(TheFlight.end)
  /\ Len(Segments) = 1
  /\ Segments[1].segment_days > 1

\* C4: a flight whose start is after its end (both parseable) is passed through
\* unmodified: exactly one element with the input flight's fields, kept in the
\* output flight list, in the same month or across months.
C4_StartAfterEndPassthrough ==
  (pc = "normalized" /\ StartAfterEnd(TheFlight)) =>
    /\ Len(Segments) = 1
    /\ \A k \in DOMAIN TheFlight : Segments[1][k] = TheFlight[k]

\* C5: applyFlightLogic copies the declared totals through unchanged, null
\* totals included.
C5_TotalsUnchanged ==
  pc = "normalized" =>
    /\ result.io.total_campaign_spend = io.total_campaign_spend
    /\ result.io.total_contracted_impressions = io.total_contracted_impressions

(***************************************************************************)
(* Properties of the scoring (SpecConfidence)                              *)
(***************************************************************************)
HasEntry(field) ==
  \E i \in 1..Len(report.field_confidences) : report.field_confidences[i].field = field

\* the entry of a field in the report
EntryOf(field) ==
  report.field_confidences[CHOOSE i \in 1..Len(report.field_confidences) :
                             report.field_confidences[i].field = field]

\* the score of the named component of an entry
ScoreIn(fieldConf, name) == FindComponent(fieldConf.components, name)[1].score

MeanOf(components) == RDivInt(SumScores(components), Len(components))

BothTotalsDeclared ==
  io.total_campaign_spend # Null /\ io.total_contracted_impressions # Null

CostSumMatches == Abs(SumCost(io.flights) - io.total_campaign_spend[1]) < 1

UnitsSumMatches == SumUnits(io.flights) = io.total_contracted_impressions[1]

C7_ZeroTolerance ==
  (pc = "scored" /\ BothTotalsDeclared /\ Len(io.flights) > 0) =>
    ScoreIn(EntryOf("total_campaign_spend"), "totals_match_sums") =
      (IF CostSumMatches /\ UnitsSumMatches THEN One ELSE Zero)

C9_MismatchRejects ==
  pc = "scored" =>
    /\ GateFails(EntryOf("total_campaign_spend").components, "totals_match_sums")
         => EntryOf("total_campaign_spend").status = "reject"
    /\ GateFails(EntryOf("total_contracted_impressions").components, "total_impressions_match")
         => EntryOf("total_contracted_impressions").status = "reject"

FieldConfidences == report.field_confidences

IsFlightEntry(fieldConf) == SubSeq(fieldConf.field, 1, 7) = "flight_"

\* the identity guard rewrote the entry of this field
GuardActedOn(field) ==
  \/ field = "advertiser_name" /\ IdentityMultipliers(io).advertiser # One
  \/ field = "agency_name" /\ IdentityMultipliers(io).agency # One

\* C11 (threshold classification): every entry of the final report, the
\* advertiser and agency entries after the identity-guard pass and every flight
\* included, has status use iff confidence_score >= 0.80, review iff
\* 0.55 <= confidence_score < 0.80 and reject iff confidence_score < 0.55.
C11_ThresholdClassification ==
  pc = "scored" =>
    \A i \in 1..Len(FieldConfidences) :
      LET fc == FieldConfidences[i]
      IN /\ fc.status = "use" <=> RGe(fc.confidence_score, Rat(80, 100))
         /\ fc.status = "review" <=> (/\ RGe(fc.confidence_score, Rat(55, 100))
                                      /\ RLt(fc.confidence_score, Rat(80, 100)))
         /\ fc.status = "reject" <=> RLt(fc.confidence_score, Rat(55, 100))

\* C12 (aggregateConfidence blend): for every top-level entry the components
\* end with one confidence_merge component; with validation_score the mean of
\* the components before it, that component scores 0.6 x validation_score +
\* 0.4 x (find_confidence + value_confidence) / 200 when the field has an
\* upstream pair and validation_score otherwise, and it is the entry's
\* confidence_score wherever the identity guard has not rewritten the entry.
C12_Blend ==
  pc = "scored" =>
    \A i \in 1..Len(FieldConfidences) :
      LET fc == FieldConfidences[i]
          n == Len(fc.components)
          supplied == SubSeq(fc.components, 1, n - 1)
          llm == getLLMConfidence(io, fc.field)
      IN ~IsFlightEntry(fc) =>
           /\ n >= 2
           /\ fc.components[n].name = "confidence_merge"
           /\ \A k \in 1..(n - 1) : fc.components[k].name # "confidence_merge"
           /\ fc.components[n].score =
                (IF llm = Null THEN MeanOf(supplied)
                 ELSE RAdd(RMul(Rat(6, 10), MeanOf(supplied)),
                           RMul(Rat(4, 10),
                                Rat(llm[1].find_confidence + llm[1].value_confidence, 200))))
           /\ ~GuardActedOn(fc.field) => fc.confidence_score = fc.components[n].score

\* an advertiser found under its own heading with the pair (0, 60): span 0.9
\* and stability 0.7 give validation 0.8, blended with 0.3 to 0.6
C12_Witness ==
  /\ pc = "scored"
  /\ getLLMConfidence(io, "advertiser_name") =
       Some([find_confidence |-> 0, value_confidence |-> 60])
  /\ ~GuardActedOn("advertiser_name")
  /\ MeanOf(SubSeq(EntryOf("advertiser_name").components, 1, 2)) = Rat(8, 10)
  /\ EntryOf("advertiser_name").confidence_score = Rat(6, 10)
  /\ getLLMConfidence(io, "po_number") = Null
  /\ EntryOf("po_number").confidence_score =
       MeanOf(SubSeq(EntryOf("po_number").components, 1, 2))

\* C13 (ReportBuilder): overall_score is the arithmetic mean of
\* confidence_score over all entries (top-level fields and flights), each of
\* use_count, review_count and reject_count is the number of entries with that
\* status, and the three counts sum to the number of entries.
C13_ReportTotals ==
  pc = "scored" =>
    LET n == Len(FieldConfidences)
        Total[i \in 0..n] ==
          IF i = 0 THEN Zero ELSE RAdd(Total[i - 1], FieldConfidences[i].confidence_score)
        Having(status) == Cardinality({ i \in 1..n : FieldConfidences[i].status = status })
    IN /\ report.overall_score = RDivInt(Total[n], n)
       /\ report.summary.use_count = Having("use")
       /\ report.summary.review_count = Having("review")
       /\ report.summary.reject_count = Having("reject")
       /\ report.summary.use_count + report.summary.review_count
            + report.summary.reject_count = n

\* a report with two flights, one of them rejected by the cost gate, entries of
\* all three statuses, and an advertiser entry the identity guard has rewritten
C13_Witness ==
  /\ pc = "scored"
  /\ Len(io.flights) = 2
  /\ EntryOf("flight_2").status = "reject"
  /\ GuardActedOn("advertiser_name")
  /\ report.summary.use_count > 0
  /\ report.summary.review_count > 0
  /\ report.summary.reject_count > 0
  /\ report.overall_score # EntryOf("advertiser_name").confidence_score

InUnitInterval(score) == RGe(score, Zero) /\ RGe(One, score)

\* C14 (normalized scores): with upstream find_confidence and value_confidence
\* in 0..100, every component score, every confidence_score and overall_score
\* lie in [0, 1], on the LLM blend, the flight gate and the identity-guard
\* recalculation alike.
C14_ScoresNormalized ==
  pc = "scored" =>
    /\ InUnitInterval(report.overall_score)
    /\ \A i \in 1..Len(FieldConfidences) :
         /\ InUnitInterval(FieldConfidences[i].confidence_score)
         /\ \A k \in 1..Len(FieldConfidences[i].components) :
              InUnitInterval(FieldConfidences[i].components[k].score)

\* all three paths in one report: the advertiser blended with the pair
\* (100, 100) and then recalculated by the guard, and a flight the gate rejects
C14_Witness ==
  /\ pc = "scored"
  /\ getLLMConfidence(io, "advertiser_name") =
       Some([find_confidence |-> 100, value_confidence |-> 100])
  /\ GuardActedOn("advertiser_name")
  /\ EntryOf("advertiser_name").confidence_score
       # ScoreIn(EntryOf("advertiser_name"), "confidence_merge")
  /\ Len(io.flights) = 2
  /\ GateFails(EntryOf("flight_2").components, "flight_cost")
  /\ EntryOf("flight_2").confidence_score = Zero

\* the three advertiser names of the runs, when there are three
RunNames == [i \in 1..3 |-> args.multiRunData[i].advertiser_name[1]]

ThreeStringRuns ==
  /\ Len(args.multiRunData) = 3
  /\ \A i \in 1..3 : args.multiRunData[i].advertiser_name # Null

\* the similarity of a pair as the rule words it
PairSimilarity(a, b) ==
  IF a = b THEN One
  ELSE IF normalize(a) = normalize(b) THEN Rat(95, 100)
  ELSE Rat(Max(Len(normalize(a)), Len(normalize(b)))
             - levenshteinDistance(normalize(a), normalize(b)),
           Max(Len(normalize(a)), Len(normalize(b))))

AverageSimilarity ==
  RDivInt(RAdd(RAdd(PairSimilarity(RunNames[1], RunNames[2]),
                    PairSimilarity(RunNames[1], RunNames[3])),
               PairSimilarity(RunNames[2], RunNames[3])), 3)

AllIdenticalAfterNormalization ==
  \A i, j \in 1..3 : normalize(RunNames[i]) = normalize(RunNames[j])

\* C15 (stability of three string runs): the stability score is 1.0 iff the
\* average of the three pairwise similarities is >= 0.95, 0.9 iff it is in
\* [0.85, 0.95), 0.7 iff it is in [0.70, 0.85) and 0.4 otherwise; it is never
\* below 0.4, and never 1.0 for runs that are not all identical after
\* normalization.
C15_StabilityOfStrings ==
  (pc = "scored" /\ ThreeStringRuns) =>
    LET score == ScoreIn(EntryOf("advertiser_name"), "stability")
    IN /\ score = (IF RGe(AverageSimilarity, Rat(95, 100)) THEN One
                   ELSE IF RGe(AverageSimilarity, Rat(85, 100)) THEN Tenths(9)
                   ELSE IF RGe(AverageSimilarity, Rat(70, 100)) THEN Tenths(7)
                   ELSE Tenths(4))
       /\ RGe(score, Tenths(4))
       /\ ~AllIdenticalAfterNormalization => score # One

\* C16 (P6, idempotence): calculateConfidence is a function of its arguments,
\* and a second call on the very same in-memory arguments, after the first has
\* run and numbered the flights, returns a report equal to the first one.
C16_SecondCallEqual ==
  [][(pc = "scored" /\ pc' = "rescored") => report' = report]_vars

\* a second call on a document with two flights that the first call numbered,
\* and with upstream confidences and an entry the identity guard rewrote
C16_Witness ==
  /\ pc = "rescored"
  /\ Len(io.flights) = 2
  /\ io.flights[2].index = Some(2)
  /\ HasEntry("flight_1") /\ HasEntry("flight_2")
  /\ getLLMConfidence(io, "advertiser_name") # Null
  /\ GuardActedOn("advertiser_name")

(***************************************************************************)
(* Further properties of the segmenter (SpecSegmenter)                     *)
(***************************************************************************)
InclusiveDays(start, end) == DayOf(end) - DayOf(start) + 1

\* C17 (no segment crosses a month boundary): every segment of a flight with
\* present dates and start <= end has its start and its end in the same
\* calendar month and year.
C17_SegmentsWithinMonth ==
  (pc = "normalized" /\ ValidRange(TheFlight)) =>
    \A i \in 1..Len(Segments) :
      /\ Segments[i].start[1] = Segments[i].end[1]
      /\ Segments[i].start[2] = Segments[i].end[2]

\* a flight over a year boundary and at least three months, cut into at least
\* three segments of which a middle one covers a whole month
C17_Witness ==
  /\ pc = "normalized"
  /\ ValidRange(TheFlight)
  /\ TheFlight.start[1] < TheFlight.end[1]
  /\ Len(Segments) >= 3
  /\ Segments[2].start[3] = 1
  /\ Segments[2].end[3] = getDaysInMonth(Segments[2].end[1], Segments[2].end[2])

\* C18 (segment metadata): for every segment of a flight that is split,
\* segment_days is the inclusive number of days from the segment's start to its
\* end, proration_factor is segment_days over the flight's inclusive days
\* (4 decimals, here in 1/10000), and the segment_days sum to the flight's
\* inclusive day count.
C18_SegmentMetadata ==
  (pc = "normalized" /\ ValidRange(TheFlight) /\ ~SameCalendarMonth(TheFlight)) =>
    LET totalDays == InclusiveDays(TheFlight.start, TheFlight.end)
        Days[i \in 0..Len(Segments)] ==
          IF i = 0 THEN 0 ELSE Days[i - 1] + Segments[i].segment_days
    IN /\ \A i \in 1..Len(Segments) :
            /\ Segments[i].segment_days = InclusiveDays(Segments[i].start, Segments[i].end)
            /\ Segments[i].proration_factor = MathRound(Segments[i].segment_days * 10000, totalDays)
       /\ Days[Len(Segments)] = totalDays

\* C19 (applyFlightLogic is pure with respect to its argument): the call leaves
\* the input document's flights, declared totals and explanation.assumptions
\* exactly as they were.
C19_ArgumentUntouched ==
  [][pc' = "normalized" =>
       /\ io'.flights = io.flights
       /\ io'.total_campaign_spend = io.total_campaign_spend
       /\ io'.total_contracted_impressions = io.total_contracted_impressions
       /\ io'.explanation.assumptions = io.explanation.assumptions]_vars

(***************************************************************************)
(* Properties of the pipeline (SpecPipeline)                               *)
(***************************************************************************)
\* a date string that is there and does not parse
PresentUnparseable(dateStr) == dateStr # Null /\ ~IsValidDateString(dateStr)

FlightEntryIndexes == { i \in 1..Len(FieldConfidences) : IsFlightEntry(FieldConfidences[i]) }

\* C20 (DateParseError is scored, not dropped): a flight whose start or end is
\* present but does not parse still yields exactly one flight in the document
\* applyFlightLogic returns and receives a FieldConfidence whose flight_dates
\* component scores 0.0, while the other flight of the document is processed
\* as usual.
C20_UnparseableScored ==
  (/\ pc = "reported"
   /\ PresentUnparseable(TheFlight.start) \/ PresentUnparseable(TheFlight.end)) =>
    /\ Len(result.io.flights) = Len(io.flights)
    /\ \A k \in DOMAIN TheFlight : result.io.flights[1][k] = TheFlight[k]
    /\ Cardinality(FlightEntryIndexes) = Len(io.flights)
    /\ ScoreIn(EntryOf("flight_1"), "flight_dates") = Zero
    /\ Len(io.flights) = 2 => ScoreIn(EntryOf("flight_2"), "flight_dates") = One

(***************************************************************************)
(* Flight rules, provenance and the identity guard in the report           *)
(***************************************************************************)
\* the flight_dates score of the entry of the flight at position i
FlightDatesScore(i) == ScoreIn(EntryOf(FlightFieldName(io.flights[i])), "flight_dates")

\* C21 as stated: flight_dates is 1.0 when both dates parse and the start is
\* on or before the end, and 0.0 in every other case
C21_AsStated ==
  pc = "scored" =>
    \A i \in 1..Len(io.flights) :
      FlightDatesScore(i) =
        (IF BothParse(io.flights[i]) /\ ~StartAfterEnd(io.flights[i]) THEN One ELSE Zero)

\* C21 (amended): flight_dates is 1.0 when both dates parse and the start is on
\* or before the end (equal dates included), 0.2 when both parse and the start
\* is after the end, and 0.0 when either date is missing or does not parse
C21_FlightDates ==
  pc = "scored" =>
    \A i \in 1..Len(io.flights) :
      FlightDatesScore(i) =
        (IF ~BothParse(io.flights[i]) THEN Zero
         ELSE IF StartAfterEnd(io.flights[i]) THEN Tenths(2)
         ELSE One)

\* a scored flight whose dates both parse and whose start is after its end
C21_Witness ==
  /\ pc = "scored"
  /\ Len(io.flights) = 1
  /\ BothParse(io.flights[1])
  /\ StartAfterEnd(io.flights[1])
  /\ FlightDatesScore(1) = Tenths(2)

\* C22 (runStage4 keeps the upstream confidence): for every top-level field
\* whose provenance entry in the primary parse carries find_confidence and
\* value_confidence, the entry of the report made by runStage4 has as
\* confidence_score the blend 0.6 x validation_score + 0.4 x
\* (find_confidence + value_confidence) / 200 (where the identity guard has
\* not rewritten the entry).
C22_UpstreamConfidenceKept ==
  pc = "reported" =>
    \A i \in 1..Len(FieldConfidences) :
      LET fc == FieldConfidences[i]
          n == Len(fc.components)
          llm == getLLMConfidence(io, fc.field)
      IN (~IsFlightEntry(fc) /\ llm # Null /\ ~GuardActedOn(fc.field)) =>
           fc.confidence_score =
             RAdd(RMul(Rat(6, 10), MeanOf(SubSeq(fc.components, 1, n - 1))),
                  RMul(Rat(4, 10),
                       Rat(llm[1].find_confidence + llm[1].value_confidence, 200)))

\* C23 (missing evidence): when the provenance of the document gives no
\* location hint at all (it is empty), every top-level entry that has a
\* span_quality component has it at 0.6, never more.
C23_MissingEvidenceNeutral ==
  (pc = "scored" /\ io.provenance = <<>>) =>
    \A i \in 1..Len(FieldConfidences) :
      LET fc == FieldConfidences[i]
      IN (~IsFlightEntry(fc) /\ FindComponent(fc.components, "span_quality") # Null) =>
           ScoreIn(fc, "span_quality") = Rat(6, 10)

\* C24 (the identity guard is a penalty): when the guard fires for
\* advertiser_name or agency_name, the entry's final confidence_score is at
\* most the score the field had without the guard, which is the score of its
\* confidence_merge component.
C24_GuardIsPenalty ==
  pc = "scored" =>
    \A field \in {"advertiser_name", "agency_name"} :
      GuardActedOn(field) =>
        RGe(ScoreIn(EntryOf(field), "confidence_merge"), EntryOf(field).confidence_score)

\* the names of advertiser and agency are present and identical
NamesCollide == io.advertiser_name # Null /\ io.advertiser_name = io.agency_name

\* the location of the field holds one of the phrases of the wrong section
WrongLocation(field) ==
  \E phrase \in {"order total", "supplier", "traffic"} :
    includes(toLowerCase(getLocation(io, field)), phrase)

\* C25 as stated: each identity multiplier is 1.0 or lies in [0.4, 0.5], also
\* when a name collision and a suspicious keyword apply to the same field
C25_AsStated ==
  pc = "scored" =>
    \A m \in {IdentityMultipliers(io).advertiser, IdentityMultipliers(io).agency,
              IdentityMultipliers(io).supplier} :
      m = One \/ (RGe(m, Tenths(4)) /\ RGe(Tenths(5), m))

\* C25 (amended): each identity multiplier is 1.0 when neither condition
\* applies to the field, 0.4 for a name collision alone, 0.5 for a suspicious
\* location keyword alone, and 0.4 x 0.5 = 0.2 when both apply to the field
C25_Multipliers ==
  pc = "scored" =>
    /\ IdentityMultipliers(io).advertiser =
          RMul(IF NamesCollide THEN Tenths(4) ELSE One,
               IF WrongLocation("advertiser_name") THEN Tenths(5) ELSE One)
    /\ IdentityMultipliers(io).agency =
          RMul(IF NamesCollide THEN Tenths(4) ELSE One,
               IF WrongLocation("agency_name") THEN Tenths(5) ELSE One)
    /\ IdentityMultipliers(io).supplier = One

\* advertiser and agency carry the same name and the advertiser was found in
\* a supplier block: its multiplier is 0.2, the agency's 0.4
C25_Witness ==
  /\ pc = "scored"
  /\ NamesCollide
  /\ WrongLocation("advertiser_name")
  /\ ~WrongLocation("agency_name")
  /\ IdentityMultipliers(io).advertiser = Tenths(2)
  /\ IdentityMultipliers(io).agency = Tenths(4)

\* a CPM argument was given (cpm is truthy)
OverrideGiven == args.cpm # Null /\ args.cpm[1] # 0

\* some flight carries a positive rate_cpm
FlightsCarryRate == \E i \in 1..Len(io.flights) : io.flights[i].rate_cpm # Null /\ io.flights[i].rate_cpm[1] > 0

\* the numeric triangle of the declared totals at the given rate
TriangleAt(rate) ==
  validateNumericTriangle(io.total_campaign_spend, rate, io.total_contracted_impressions).score

\* the score of the numeric_triangle component of an entry, or null
TriangleOf(field) ==
  LET c == FindComponent(EntryOf(field).components, "numeric_triangle")
  IN IF c = Null THEN Null ELSE Some(c[1].score)

C28_SegmentsNonNegative ==
  (pc = "normalized" /\ ValidRange(TheFlight)) =>
    \A i \in 1..Len(Segments) :
      /\ Segments[i].units # Null => Segments[i].units[1] >= 0
      /\ Segments[i].cost # Null => Segments[i].cost[1] >= 0

\* the flight has a positive rate, units and cost and passes the cost check
PassesCostCheck(flight) ==
  /\ flight.rate_cpm # Null /\ flight.rate_cpm[1] > 0
  /\ flight.units # Null /\ flight.units[1] > 0
  /\ flight.cost # Null /\ flight.cost[1] > 0
  /\ validateFlightCost(flight).score = One

\* the number of segments made of the flights before position i
SegmentsBefore(i) == Len(AllSegments(SegmentsByFlight(SubSeq(io.flights, 1, i - 1)), 1))

\* C27 (month-splitting preserves cost consistency): in the pipeline, if a
\* flight with positive rate_cpm, units and cost passes the cost-against-CPM
\* check, every one of its segments with positive units and cost has a
\* flight_cost component of 1.0 in the report.
C27_SegmentsStayConsistent ==
  pc = "reported" =>
    \A i \in 1..Len(io.flights) :
      PassesCostCheck(io.flights[i]) =>
        \A k \in (SegmentsBefore(i) + 1)..SegmentsBefore(i + 1) :
          (/\ result.io.flights[k].units # Null /\ result.io.flights[k].units[1] > 0
           /\ result.io.flights[k].cost # Null /\ result.io.flights[k].cost[1] > 0) =>
            ScoreIn(EntryOf("flight_" \o ToString(k)), "flight_cost") = One

(***************************************************************************)
(* The account executive                                                   *)
(***************************************************************************)
\* the document names no account executive: null, empty or spaces only
NoAccountExecutive == io.account_executive_name \in {Null, Some(""), Some("  ")}

\* C29 (a missing account executive is rejected): when account_executive_name
\* is null, empty or whitespace only, its entry has status reject, whatever
\* the upstream confidence pair (0..100 each) and the values of the runs.
C29_MissingExecutiveRejected ==
  (pc = "scored" /\ NoAccountExecutive) =>
    /\ HasEntry("account_executive_name")
    /\ EntryOf("account_executive_name").status = "reject"

\* a name of spaces only, found with the upstream pair (100, 100) while the
\* three runs agree on a name: the score is 0.4 x 1.0 and the status reject
C29_Witness ==
  /\ pc = "scored"
  /\ io.account_executive_name = Some("  ")
  /\ getLLMConfidence(io, "account_executive_name") =
       Some([find_confidence |-> 100, value_confidence |-> 100])
  /\ Len(args.multiRunData) = 3
  /\ args.multiRunData[1].account_executive_name = Some("Dana Lee")
  /\ EntryOf("account_executive_name").confidence_score = Tenths(4)
  /\ EntryOf("account_executive_name").status = "reject"

(***************************************************************************)
(* The simplified output (SpecPipeline)                                    *)
(***************************************************************************)
\* the entries of the report that belong to flights, in order
ReportedFlights == SelectSeq(FieldConfidences, IsFlightEntry)

\* the three counts of the simplified summary are those of the report
CountsAgree ==
  /\ simplified.summary.use_count = report.summary.use_count
  /\ simplified.summary.review_count = report.summary.review_count
  /\ simplified.summary.reject_count = report.summary.reject_count

\* every simplified flight has the status and score of the report's entry for
\* the flight at the same position
FlightsAgree ==
  /\ Len(simplified.flights) = Len(ReportedFlights)
  /\ \A i \in 1..Len(simplified.flights) :
       /\ simplified.flights[i].status = ReportedFlights[i].status
       /\ simplified.flights[i].confidence = ReportedFlights[i].confidence_score

\* C30 (the simplified projection agrees with the report): the use, review
\* and reject counts of the simplified summary equal the counts of the report,
\* and each simplified flight carries the status and confidence of the
\* FieldConfidence of the flight at the same position.
C30_ProjectionAgrees == pc = "simplified" => (CountsAgree /\ FlightsAgree)

====
